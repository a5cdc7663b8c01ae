------------------------------- MODULE Loader -------------------------------
(***************************************************************************)
(* The UEFI boot loader: efi_main and read_file                            *)
(* (src/bootloader/src/main.c), elf_load (elf.c), and, as external, the    *)
(* firmware services they call.  Any service may fail, and until           *)
(* ExitBootServices succeeds the firmware may change its memory map        *)
(* between any two calls.                                                  *)
(*                                                                         *)
(* Sizes of memory maps are in descriptors; a map's contents are known by  *)
(* its key.  Read gives all of a file or fails, and the size query of      *)
(* GetInfo never succeeds without a buffer, as the UEFI specification      *)
(* requires.                                                               *)
(***************************************************************************)
EXTENDS Integers, Sequences, FiniteSets

CONSTANTS
    Elfs,           \* the images kernel.elf may hold: see IsElf
    PageSize,       \* 4096
    MapSizes,       \* the sizes the firmware's map may have
    MaxChanges      \* bound: how often the firmware changes its map

VARIABLES
    pc,             \* the service call the loader is at
    elf,            \* the contents of kernel.elf
    file,           \* the kernel.elf handle is open
    pool,           \* live AllocatePool buffers
    image,          \* the addresses AllocatePages gave to the image
    memory,         \* what elf_load wrote: address -> byte
    fw,             \* the firmware's map: its key and its size
    map_size, map_key,
    capacity,       \* the size of the buffer map points to
    buffer,         \* the map last stored in that buffer
    boot_info       \* memory_map_size as handed to the kernel

vars == <<pc, elf, file, pool, image, memory, fw, map_size, map_key, capacity,
          buffer, boot_info>>
map == <<map_size, map_key, capacity, buffer, boot_info>>

\* A program header; the file's byte b of segment s is <<s, b>>.
Segment == [load : BOOLEAN, paddr : Nat, filesz : Nat, memsz : Nat]
Span(s) == s.paddr .. (s.paddr + s.memsz - 1)
IsElf(e) ==
    /\ e.valid \in BOOLEAN /\ e.phdr \in Seq(Segment)
    /\ \A i \in DOMAIN e.phdr : e.phdr[i].filesz <= e.phdr[i].memsz
    /\ \A i, j \in DOMAIN e.phdr : i # j /\ e.phdr[i].load /\ e.phdr[j].load =>
          Span(e.phdr[i]) \cap Span(e.phdr[j]) = {}

ASSUME ElfsAssumption == \A e \in Elfs : IsElf(e)
ASSUME BoundsAssumption ==
    PageSize \in Nat \ {0} /\ MapSizes \subseteq Nat /\ MaxChanges \in Nat

ZERO == <<0, 0>>
NoMap == [key |-> 0, size |-> 0]

Init ==
    /\ pc = "gop" /\ elf \in Elfs
    /\ file = FALSE /\ pool = {} /\ image = {} /\ memory = <<>>
    /\ fw \in {[key |-> 1, size |-> n] : n \in MapSizes}
    /\ map_size = 0 /\ map_key = 0 /\ capacity = 0
    /\ buffer = NoMap /\ boot_info = 0
----------------------------------------------------------------------------
\* The firmware.

Running == pc \notin {"kernel", "failed", "unreadable"}

\* A timer or a driver callback allocates or frees.
FirmwareChangesMap ==
    /\ Running /\ fw.key <= MaxChanges
    /\ \E n \in MapSizes : fw' = [key |-> fw.key + 1, size |-> n]
    /\ UNCHANGED <<pc, elf, file, pool, image, memory, map>>

\* A call without side effects on the state below.
Service(at, next) ==
    /\ pc = at /\ pc' \in {next, "failed"}
    /\ UNCHANGED <<elf, file, pool, image, memory, fw, map>>

\* GetMemoryMap fills the buffer if map_size says it is large enough; it
\* reports the size in either case.
GetMemoryMap(size) ==
    /\ map_size' = fw.size
    /\ IF fw.size <= size
       THEN map_key' = fw.key /\ buffer' = fw
       ELSE UNCHANGED <<map_key, buffer>>
----------------------------------------------------------------------------
\* efi_main, up to the file.

LocateGop == Service("gop", "fs")
LocateFileSystem == Service("fs", "volume")
OpenVolume == Service("volume", "open")

\* read_file: every early return closes the file and frees what it holds.
OpenFile ==
    /\ pc = "open"
    /\ \/ pc' = "info_size" /\ file' = TRUE
       \/ pc' = "unreadable" /\ UNCHANGED file
    /\ UNCHANGED <<elf, pool, image, memory, fw, map>>
CloseAndFail == pc' = "unreadable" /\ file' = FALSE
GetInfoSize ==
    /\ pc = "info_size"
    /\ (pc' = "info_alloc" /\ UNCHANGED file) \/ CloseAndFail
    /\ UNCHANGED <<elf, pool, image, memory, fw, map>>
AllocateInfo ==
    /\ pc = "info_alloc"
    /\ \/ pc' = "info" /\ pool' = pool \cup {"info"} /\ UNCHANGED file
       \/ CloseAndFail /\ UNCHANGED pool
    /\ UNCHANGED <<elf, image, memory, fw, map>>

\* MUTANT: the error return forgets to free the file's description.
GetInfo_LeaksOnError ==
    /\ pc = "info"
    /\ \/ pc' = "buf_alloc" /\ pool' = pool \ {"info"} /\ UNCHANGED file
       \/ CloseAndFail /\ UNCHANGED pool
    /\ UNCHANGED <<elf, image, memory, fw, map>>

GetInfo ==
    /\ pc = "info"
    /\ (pc' = "buf_alloc" /\ UNCHANGED file) \/ CloseAndFail
    /\ pool' = pool \ {"info"}
    /\ UNCHANGED <<elf, image, memory, fw, map>>
AllocateBuf ==
    /\ pc = "buf_alloc"
    /\ \/ pc' = "read" /\ pool' = pool \cup {"buf"} /\ UNCHANGED file
       \/ CloseAndFail /\ UNCHANGED pool
    /\ UNCHANGED <<elf, image, memory, fw, map>>
ReadFile ==
    /\ pc = "read" /\ file' = FALSE
    /\ \/ pc' = "elf" /\ UNCHANGED pool
       \/ pc' = "unreadable" /\ pool' = pool \ {"buf"}
    /\ UNCHANGED <<elf, image, memory, fw, map>>
----------------------------------------------------------------------------
\* elf_load.

Loads == {i \in DOMAIN elf.phdr : elf.phdr[i].load}
MinOf(S) == CHOOSE x \in S : \A y \in S : x <= y
MaxOf(S) == CHOOSE x \in S : \A y \in S : x >= y
AlignDown(a) == (a \div PageSize) * PageSize
AlignUp(a) == AlignDown(a + PageSize - 1)

\* Pass 1: the range of all PT_LOAD segments, rounded to pages.
SegStart == AlignDown(MinOf({elf.phdr[i].paddr : i \in Loads}))

\* MUTANT: the end of a segment is taken from its size in the file.
SegEnd_WithoutBss ==
    AlignUp(MaxOf({elf.phdr[i].paddr + elf.phdr[i].filesz : i \in Loads}))

SegEnd == AlignUp(MaxOf({elf.phdr[i].paddr + elf.phdr[i].memsz : i \in Loads}))

\* Pass 3: filesz bytes of the file, then zeros up to memsz, one segment
\* after the other.
CopySegment(i, done) ==
    LET s == elf.phdr[i] IN
    [a \in DOMAIN done \cup Span(s) |->
        IF a \notin Span(s) THEN done[a]
        ELSE IF a < s.paddr + s.filesz THEN <<i, a - s.paddr>> ELSE ZERO]
Copied[n \in Nat] ==
    IF n = 0 THEN <<>>
    ELSE IF n \in Loads THEN CopySegment(n, Copied[n - 1]) ELSE Copied[n - 1]

elf_load ==
    /\ pc = "elf"
    /\ \/ /\ elf.valid /\ Loads # {}
          /\ image' = SegStart .. (SegEnd - 1)
          /\ memory' = Copied[Len(elf.phdr)]
          /\ pc' = "map_size"
       \/ \* a bad header, no PT_LOAD segment, or AllocatePages failed
          pc' = "failed" /\ UNCHANGED <<image, memory>>
    /\ UNCHANGED <<elf, file, pool, fw, map>>
----------------------------------------------------------------------------
\* The memory map and the end of boot services.

\* The first call only asks for the size; two descriptors are added.
AskMapSize ==
    /\ pc = "map_size" /\ pc' = "map_alloc"
    /\ map_size' = fw.size + 2
    /\ UNCHANGED <<elf, file, pool, image, memory, fw, map_key, capacity,
                   buffer, boot_info>>
AllocateMap ==
    /\ pc = "map_alloc"
    /\ \/ /\ pc' = "map_get" /\ pool' = pool \cup {"map"} /\ capacity' = map_size
       \/ pc' = "failed" /\ UNCHANGED <<pool, capacity>>
    /\ UNCHANGED <<elf, file, image, memory, fw, map_size, map_key, buffer, boot_info>>

GetMap ==
    /\ pc = "map_get"
    /\ GetMemoryMap(map_size)
    /\ IF fw.size <= map_size
       THEN pc' = "exit" /\ boot_info' = map_size'
       ELSE pc' = "failed" /\ UNCHANGED boot_info
    /\ UNCHANGED <<elf, file, pool, image, memory, fw, capacity>>

\* ExitBootServices accepts only the key of the current map.
Exit ==
    /\ pc = "exit"
    /\ pc' = IF map_key = fw.key THEN "kernel" ELSE "again"
    /\ UNCHANGED <<elf, file, pool, image, memory, fw, map>>

\* MUTANT: the retry asks for the size again but keeps the old buffer.
GetMapAgain_AsksAnew ==
    /\ pc = "again" /\ pc' = "exit_again"
    /\ GetMemoryMap(fw.size)
    /\ UNCHANGED <<elf, file, pool, image, memory, fw, capacity, boot_info>>

GetMapAgain ==
    /\ pc = "again" /\ pc' = "exit_again"
    /\ GetMemoryMap(map_size)
    /\ UNCHANGED <<elf, file, pool, image, memory, fw, capacity, boot_info>>

\* MUTANT: the second ExitBootServices is not checked.
ExitAgain_IgnoresStatus ==
    /\ pc = "exit_again" /\ pc' = "kernel"
    /\ UNCHANGED <<elf, file, pool, image, memory, fw, map>>

ExitAgain ==
    /\ pc = "exit_again"
    /\ pc' = IF map_key = fw.key THEN "kernel" ELSE "failed"
    /\ UNCHANGED <<elf, file, pool, image, memory, fw, map>>

Next ==
    \/ FirmwareChangesMap
    \/ LocateGop \/ LocateFileSystem \/ OpenVolume
    \/ OpenFile \/ GetInfoSize \/ AllocateInfo \/ GetInfo \/ AllocateBuf \/ ReadFile
    \/ elf_load
    \/ AskMapSize \/ AllocateMap \/ GetMap
    \/ Exit \/ GetMapAgain \/ ExitAgain

Spec == Init /\ [][Next]_vars
----------------------------------------------------------------------------
\* Properties.

\* read_file's early returns clean up: outside it no handle is open and the
\* file's description is freed, and when it failed so is its buffer.
InReadFile == {"info_size", "info_alloc", "info", "buf_alloc", "read"}
ReadFileCleansUp ==
    /\ pc \notin InReadFile => ~file /\ "info" \notin pool
    /\ pc = "unreadable" => pool = {}

\* What the kernel starts from is what its ELF file describes: every byte of
\* every PT_LOAD segment is in the pages that were allocated for it and is
\* the file's byte, or zero beyond filesz, whatever the order, alignment and
\* gaps of the segments.
ImageLoaded ==
    pc \in {"map_size", "map_alloc", "map_get", "exit", "again", "exit_again", "kernel"} =>
      \A i \in Loads : LET s == elf.phdr[i] IN
        /\ Span(s) \subseteq image
        /\ \A b \in 0 .. (s.memsz - 1) :
             memory[s.paddr + b] = IF b < s.filesz THEN <<i, b>> ELSE ZERO

\* GetMemoryMap never writes past the buffer, also on the second attempt.
MapFitsBuffer == buffer.size <= capacity

\* The kernel is started on the current memory map: the one whose key
\* ExitBootServices accepted is the one in the buffer.
KernelSeesFinalMap ==
    pc = "kernel" => buffer = fw
=============================================================================
