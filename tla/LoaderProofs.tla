---------------------------- MODULE LoaderProofs ----------------------------
(***************************************************************************)
(* Theorems about Loader, for every kernel image, page size and firmware   *)
(* memory map.                                                             *)
(***************************************************************************)
EXTENDS Loader, WellFoundedInduction, TLAPS

(***************************************************************************)
(* The inductive invariant.                                                *)
(***************************************************************************)

Map == [key : Nat, size : Nat]

LoaderType ==
    /\ elf \in Elfs /\ file \in BOOLEAN
    /\ fw \in Map /\ buffer \in Map
    /\ map_size \in Nat /\ map_key \in Nat /\ capacity \in Nat

\* What read_file holds at each of its calls.
HoldsNothing ==
    {"gop", "fs", "volume", "open", "info_size", "info_alloc", "buf_alloc", "unreadable"}
PoolInv ==
    /\ pc \in HoldsNothing => pool = {}
    /\ pc = "info" => pool = {"info"}
    /\ pc = "read" => pool = {"buf"}
    /\ "info" \in pool => pc = "info"
    /\ pc \notin InReadFile => ~file

\* The calls before the memory map is stored, and those that rely on its key.
StoresMap == {"exit", "again", "exit_again"}
Loaded == {"map_size", "map_alloc", "map_get"} \cup StoresMap \cup {"kernel"}

\* A map that has the current key is the current map; the buffer has room
\* for what map_size asks for.
MapInv ==
    /\ fw.key > 0 /\ buffer.key <= fw.key
    /\ buffer.key = fw.key => buffer = fw
    /\ pc \in {"elf", "map_size", "map_alloc", "map_get"} \cup HoldsNothing \cup InReadFile =>
          buffer = NoMap
    /\ pc = "map_get" => capacity = map_size
    /\ pc \in {"exit", "again"} => map_size <= capacity
    /\ pc \in StoresMap => map_key = buffer.key
    /\ MapFitsBuffer /\ KernelSeesFinalMap

\* What elf_load leaves in memory for the image e.
Placed(e, img, mem) ==
    \A i \in DOMAIN e.phdr : e.phdr[i].load =>
      /\ Span(e.phdr[i]) \subseteq img
      /\ \A b \in 0 .. (e.phdr[i].memsz - 1) :
           mem[e.phdr[i].paddr + b] = IF b < e.phdr[i].filesz THEN <<i, b>> ELSE ZERO

LoaderInv ==
    /\ LoaderType /\ PoolInv /\ MapInv
    /\ pc \in Loaded => Placed(elf, image, memory)

----------------------------------------------------------------------------
\* Induction over the naturals, in a form the provers can use.

\* A nonempty set of naturals has a least element.
LEMMA LeastNat ==
    ASSUME NEW S \in SUBSET Nat, S # {}
    PROVE  \E s \in S : \A t \in S : s <= t
<1>. DEFINE R == OpToRel(<, Nat)
<1>1. IsWellFoundedOn(R, Nat)
  BY NatLessThanWellFounded
<1>2. \A x, y \in Nat : y < x => <<y, x>> \in R
  BY DEF OpToRel
<1>. HIDE DEF R
<1>3. \E x \in S : \A y \in S : ~ (<<y, x>> \in R)
  BY <1>1, WFMin
<1>4. \E x \in S : \A y \in S : ~ (y < x)
  BY <1>2, <1>3, Zenon
<1>. QED
  BY <1>4

\* A set that holds 0 and, with every natural, its successor holds them all.
LEMMA Induction ==
    ASSUME NEW S, 0 \in S, \A n \in Nat : n \in S => n + 1 \in S
    PROVE  \A n \in Nat : n \in S
<1>. SUFFICES ASSUME NEW k \in Nat, k \notin S PROVE FALSE
  OBVIOUS
<1>. DEFINE C == {n \in Nat : n \notin S}
<1>1. PICK m \in C : \A t \in C : m <= t
  <2>1. C \in SUBSET Nat /\ C # {}
    OBVIOUS
  <2>. QED
    BY <2>1, LeastNat
<1>2. m \in Nat /\ m # 0 /\ m \notin S
  OBVIOUS
<1>3. m - 1 \in Nat /\ m - 1 \notin C
  BY <1>1, <1>2
<1>4. (m - 1) + 1 \in S
  BY <1>3
<1>. QED
  BY <1>2, <1>4

\* A nonempty finite list of naturals has a greatest element.
LEMMA GreatestIn ==
    ASSUME NEW f, NEW N \in Nat, NEW D \in SUBSET (1 .. N), D # {},
           \A i \in D : f[i] \in Nat
    PROVE  \E i \in D : \A j \in D : f[j] <= f[i]
<1>. DEFINE Top(n) == {i \in D : i <= n}
            S == {n \in Nat : Top(n) # {} => \E i \in Top(n) : \A j \in Top(n) : f[j] <= f[i]}
<1>0. \A i \in D : i \in Nat /\ 0 < i /\ i <= N
  OBVIOUS
<1>1. 0 \in S
  <2>1. \A i \in D : ~ (i <= 0)
    BY <1>0
  <2>2. Top(0) = {}
    BY <2>1
  <2>. QED
    BY <2>2
<1>2. ASSUME NEW n \in Nat, n \in S PROVE n + 1 \in S
  <2>1. CASE n + 1 \notin D
    <3>1. Top(n + 1) = Top(n)
      <4>1. \A i \in D : i <= n + 1 <=> i <= n
        BY <1>0, <2>1
      <4>. QED
        BY <4>1
    <3>. QED
      BY <3>1, <1>2
  <2>2. CASE n + 1 \in D
    <3>1. Top(n + 1) = Top(n) \cup {n + 1}
      <4>1. \A i \in D : i <= n + 1 <=> i <= n \/ i = n + 1
        BY <1>0
      <4>. QED
        BY <4>1, <2>2
    <3>2. CASE Top(n) = {}
      BY <3>1, <3>2, <2>2
    <3>3. CASE Top(n) # {}
      <4>1. PICK i \in Top(n) : \A j \in Top(n) : f[j] <= f[i]
        BY <1>2, <3>3
      <4>2. i \in D /\ f[i] \in Nat /\ f[n + 1] \in Nat
        BY <2>2
      <4>3. \A j \in Top(n) : f[j] \in Nat
        OBVIOUS
      <4>. HIDE DEF Top
      <4>4. \E k \in Top(n + 1) : \A j \in Top(n + 1) : f[j] <= f[k]
        <5>1. CASE f[n + 1] <= f[i]
          <6>1. \A j \in Top(n + 1) : f[j] <= f[i]
            BY <5>1, <4>1, <3>1
          <6>. QED
            BY <6>1, <3>1
        <5>2. CASE f[i] <= f[n + 1]
          <6>1. \A j \in Top(n + 1) : f[j] <= f[n + 1]
            BY <5>2, <4>1, <4>2, <4>3, <3>1
          <6>. QED
            BY <6>1, <3>1
        <5>. QED
          BY <5>1, <5>2, <4>2
      <4>. QED
        BY <4>4
    <3>. QED
      BY <3>2, <3>3
  <2>. QED
    BY <2>1, <2>2
<1>. HIDE DEF S
<1>3. N \in S
  BY <1>1, <1>2, Induction
<1>4. Top(N) = D
  BY <1>0
<1>. QED
  BY <1>3, <1>4 DEF S
----------------------------------------------------------------------------
\* Facts about elf_load.

\* Rounding down to a page takes away less than a page.
LEMMA AlignDownBounds ==
    ASSUME NEW a \in Nat
    PROVE  AlignDown(a) \in Nat /\ AlignDown(a) <= a /\ a < AlignDown(a) + PageSize
<1>1. PageSize \in Nat /\ PageSize > 0
  BY BoundsAssumption
<1>2. ASSUME NEW p \in Nat, p > 0
      PROVE  a \div p \in Nat /\ (a \div p) * p <= a /\ a < (a \div p) * p + p
  <2>1. a \div p \in Nat
    BY <1>2
  <2>2. (a \div p) * p <= a
    BY <1>2
  <2>3. a < p * (a \div p) + p
    BY <1>2
  <2>4. ASSUME NEW q \in Nat PROVE p * q = q * p
    OBVIOUS
  <2>. QED
    BY <2>1, <2>2, <2>3, <2>4
<1>3. ASSUME NEW q \in Nat PROVE q * PageSize \in Nat
  BY <1>1
<1>. QED
  BY <1>1, <1>2, <1>3 DEF AlignDown

\* Rounding up never goes below the address.
LEMMA AlignUpAbove ==
    ASSUME NEW a \in Nat
    PROVE  AlignUp(a) \in Nat /\ a <= AlignUp(a)
<1>1. PageSize \in Nat /\ PageSize > 0 /\ a + PageSize - 1 \in Nat
  BY BoundsAssumption
<1>2. AlignDown(a + PageSize - 1) \in Nat
      /\ a + PageSize - 1 < AlignDown(a + PageSize - 1) + PageSize
  BY <1>1, AlignDownBounds
<1>. QED
  BY <1>1, <1>2 DEF AlignUp

\* The program headers of a well-formed file.
LEMMA Headers ==
    ASSUME elf \in Elfs
    PROVE  /\ Len(elf.phdr) \in Nat /\ DOMAIN elf.phdr = 1 .. Len(elf.phdr)
           /\ \A i \in DOMAIN elf.phdr :
                /\ elf.phdr[i].paddr \in Nat
                /\ elf.phdr[i].filesz \in Nat
                /\ elf.phdr[i].memsz \in Nat
                /\ elf.phdr[i].filesz <= elf.phdr[i].memsz
           /\ \A i, j \in Loads : i # j =>
                Span(elf.phdr[i]) \cap Span(elf.phdr[j]) = {}
<1>1. IsElf(elf)
  BY ElfsAssumption
<1>2. elf.phdr \in Seq(Segment)
  BY <1>1 DEF IsElf
<1>3. \A i \in DOMAIN elf.phdr : elf.phdr[i] \in Segment
  BY <1>2
<1>4. \A i \in DOMAIN elf.phdr :
         /\ elf.phdr[i].paddr \in Nat
         /\ elf.phdr[i].filesz \in Nat
         /\ elf.phdr[i].memsz \in Nat
  BY <1>3 DEF Segment
<1>5. \A i, j \in Loads : i # j => Span(elf.phdr[i]) \cap Span(elf.phdr[j]) = {}
  BY <1>1 DEF IsElf, Loads
<1>6. Len(elf.phdr) \in Nat /\ DOMAIN elf.phdr = 1 .. Len(elf.phdr)
  BY <1>2
<1>7. \A i \in DOMAIN elf.phdr : elf.phdr[i].filesz <= elf.phdr[i].memsz
  BY <1>1 DEF IsElf
<1>. QED
  BY <1>4, <1>5, <1>6, <1>7

\* The pages allocated from pass 1's range hold every PT_LOAD segment.
LEMMA SegmentsCovered ==
    ASSUME elf \in Elfs, NEW i \in Loads
    PROVE  Span(elf.phdr[i]) \subseteq SegStart .. (SegEnd - 1)
<1>. DEFINE Starts == {elf.phdr[j].paddr : j \in Loads}
            Ends == {elf.phdr[j].paddr + elf.phdr[j].memsz : j \in Loads}
            f == [j \in DOMAIN elf.phdr |-> elf.phdr[j].paddr + elf.phdr[j].memsz]
<1>1. Loads \in SUBSET (1 .. Len(elf.phdr)) /\ Loads # {}
      /\ Loads \subseteq DOMAIN elf.phdr
  BY Headers DEF Loads
<1>2. \A j \in Loads : /\ elf.phdr[j].paddr \in Nat /\ elf.phdr[j].memsz \in Nat
                        /\ f[j] = elf.phdr[j].paddr + elf.phdr[j].memsz /\ f[j] \in Nat
  BY <1>1, Headers
<1>3. MinOf(Starts) \in Nat /\ MinOf(Starts) <= elf.phdr[i].paddr
  <2>1. Starts \in SUBSET Nat /\ elf.phdr[i].paddr \in Starts
    BY <1>2
  <2>. HIDE DEF Starts
  <2>2. \E x \in Starts : \A y \in Starts : x <= y
    BY <2>1, LeastNat
  <2>3. MinOf(Starts) \in Starts /\ \A y \in Starts : MinOf(Starts) <= y
    BY <2>2 DEF MinOf
  <2>. QED
    BY <2>1, <2>3
<1>4. MaxOf(Ends) \in Nat /\ elf.phdr[i].paddr + elf.phdr[i].memsz <= MaxOf(Ends)
  <2>1. PICK k \in Loads : \A j \in Loads : f[j] <= f[k]
    <3>. HIDE DEF f
    <3>. QED
      BY <1>1, <1>2, Headers, GreatestIn
  <2>2. /\ Ends \in SUBSET Nat
        /\ elf.phdr[i].paddr + elf.phdr[i].memsz \in Ends
        /\ f[k] \in Ends /\ \A y \in Ends : y <= f[k]
    <3>1. \A y \in Ends : \E j \in Loads : y = f[j]
      BY <1>2
    <3>. QED
      BY <3>1, <2>1, <1>2
  <2>. HIDE DEF Ends, f
  <2>3. \E x \in Ends : \A y \in Ends : x >= y
    BY <2>2
  <2>4. MaxOf(Ends) \in Ends /\ \A y \in Ends : MaxOf(Ends) >= y
    BY <2>3 DEF MaxOf
  <2>. QED
    BY <2>2, <2>4
<1>5. SegStart \in Nat /\ SegStart <= elf.phdr[i].paddr
  <2>1. SegStart = AlignDown(MinOf(Starts))
    BY DEF SegStart
  <2>. DEFINE m == MinOf(Starts)
  <2>2. m \in Nat
    BY <1>3
  <2>. HIDE DEF m
  <2>3. AlignDown(m) \in Nat /\ AlignDown(m) <= m
    BY <2>2, AlignDownBounds
  <2>4. m <= elf.phdr[i].paddr /\ SegStart = AlignDown(m)
    BY <2>1, <1>3 DEF m
  <2>5. elf.phdr[i].paddr \in Nat
    BY <1>2
  <2>. QED
    BY ONLY <2>2, <2>3, <2>4, <2>5
<1>6. SegEnd \in Nat /\ elf.phdr[i].paddr + elf.phdr[i].memsz <= SegEnd
  <2>1. SegEnd = AlignUp(MaxOf(Ends))
    BY DEF SegEnd
  <2>. DEFINE m == MaxOf(Ends)
  <2>2. m \in Nat
    BY <1>4
  <2>. HIDE DEF m
  <2>3. AlignUp(m) \in Nat /\ m <= AlignUp(m)
    BY <2>2, AlignUpAbove
  <2>4. elf.phdr[i].paddr + elf.phdr[i].memsz <= m /\ SegEnd = AlignUp(m)
    BY <2>1, <1>4 DEF m
  <2>5. elf.phdr[i].paddr \in Nat /\ elf.phdr[i].memsz \in Nat
    BY <1>2
  <2>. QED
    BY ONLY <2>2, <2>3, <2>4, <2>5
<1>. HIDE DEF Starts, Ends, f
<1>7. ASSUME NEW a \in Span(elf.phdr[i]) PROVE a \in SegStart .. (SegEnd - 1)
  BY <1>2, <1>5, <1>6 DEF Span
<1>. QED
  BY <1>7

\* What the copy of segments 1 .. n leaves, in closed form: since segments
\* are disjoint, every address has at most one owner.
Byte(i, a) ==
    IF a < elf.phdr[i].paddr + elf.phdr[i].filesz THEN <<i, a - elf.phdr[i].paddr>> ELSE ZERO
Covered(n) == UNION {Span(elf.phdr[i]) : i \in {j \in Loads : j <= n}}
Owner(a) == CHOOSE i \in Loads : a \in Span(elf.phdr[i])
CopiedUpTo(n) == [a \in Covered(n) |-> Byte(Owner(a), a)]

\* The owner of an address is the segment whose span it is in.
LEMMA OwnerUnique ==
    ASSUME elf \in Elfs, NEW i \in Loads, NEW a \in Span(elf.phdr[i])
    PROVE  Owner(a) = i
<1>1. \A j \in Loads : a \in Span(elf.phdr[j]) => j = i
  BY Headers
<1>2. Owner(a) \in Loads /\ a \in Span(elf.phdr[Owner(a)])
  BY DEF Owner
<1>. QED
  BY <1>1, <1>2

\* The closed form copies one segment more, or nothing when the header is not
\* PT_LOAD.
LEMMA CopyOneMore ==
    ASSUME elf \in Elfs, NEW n \in Nat, n # 0
    PROVE  CopiedUpTo(n) =
             IF n \in Loads THEN CopySegment(n, CopiedUpTo(n - 1)) ELSE CopiedUpTo(n - 1)
<1>1. \A i \in Loads : i \in Nat /\ (i <= n <=> i <= n - 1 \/ i = n)
  BY Headers DEF Loads
<1>2. CASE n \notin Loads
  <2>1. {j \in Loads : j <= n} = {j \in Loads : j <= n - 1}
    BY <1>1, <1>2
  <2>2. Covered(n) = Covered(n - 1)
    BY <2>1 DEF Covered
  <2>. QED
    BY <1>2, <2>2 DEF CopiedUpTo
<1>3. CASE n \in Loads
  <2>. DEFINE old == CopiedUpTo(n - 1)
              S == Span(elf.phdr[n])
  <2>1. {j \in Loads : j <= n} = {j \in Loads : j <= n - 1} \cup {n}
    BY <1>1, <1>3
  <2>2. Covered(n) = Covered(n - 1) \cup S
    BY <2>1 DEF Covered
  <2>3. DOMAIN old = Covered(n - 1)
    BY DEF CopiedUpTo
  <2>4. \A a \in Covered(n - 1) : old[a] = Byte(Owner(a), a)
    BY DEF CopiedUpTo
  <2>5. \A a \in S : Owner(a) = n
    BY <1>3, OwnerUnique
  <2>. HIDE DEF old
  <2>6. CopySegment(n, old) = [a \in Covered(n) |-> Byte(Owner(a), a)]
    <3>1. CopySegment(n, old) =
            [a \in Covered(n) |-> IF a \notin S THEN old[a] ELSE Byte(n, a)]
      BY <2>2, <2>3 DEF CopySegment, Byte
    <3>2. \A a \in Covered(n) :
            (IF a \notin S THEN old[a] ELSE Byte(n, a)) = Byte(Owner(a), a)
      BY <2>2, <2>4, <2>5
    <3>. QED
      BY <3>1, <3>2
  <2>. QED
    BY <1>3, <2>6 DEF CopiedUpTo, old
<1>. QED
  BY <1>2, <1>3

\* The recursive definition has a solution, so Copied satisfies its equation.
LEMMA CopiedUnfolds ==
    ASSUME elf \in Elfs
    PROVE  \A n \in Nat : Copied[n] =
             IF n = 0 THEN <<>>
             ELSE IF n \in Loads THEN CopySegment(n, Copied[n - 1]) ELSE Copied[n - 1]
<1>. DEFINE Solves(f) == f = [n \in Nat |->
                IF n = 0 THEN <<>>
                ELSE IF n \in Loads THEN CopySegment(n, f[n - 1]) ELSE f[n - 1]]
            G == [n \in Nat |-> CopiedUpTo(n)]
<1>1. Covered(0) = {}
  <2>1. \A j \in Loads : ~ (j <= 0)
    BY Headers DEF Loads
  <2>. QED
    BY <2>1 DEF Covered
<1>2. Solves(G)
  <2>1. ASSUME NEW n \in Nat
        PROVE  CopiedUpTo(n) = IF n = 0 THEN <<>>
                 ELSE IF n \in Loads THEN CopySegment(n, G[n - 1]) ELSE G[n - 1]
    <3>1. CASE n = 0
      BY <1>1, <3>1 DEF CopiedUpTo
    <3>2. CASE n # 0
      <4>1. n - 1 \in Nat
        BY <3>2
      <4>2. G[n - 1] = CopiedUpTo(n - 1)
        BY <4>1
      <4>. HIDE DEF G
      <4>. QED
        BY <3>2, <4>2, CopyOneMore
    <3>. QED
      BY <3>1, <3>2
  <2>. QED
    BY <2>1, Zenon
<1>3. Copied = CHOOSE f : Solves(f)
  BY DEF Copied
<1>. HIDE DEF G
<1>4. Solves(Copied)
  <2>. HIDE DEF Solves
  <2>. QED
    BY <1>2, <1>3
<1>. QED
  BY <1>4

\* Induction over the headers: pass 3 leaves the closed form.
LEMMA CopiedIs ==
    ASSUME elf \in Elfs
    PROVE  \A n \in Nat : Copied[n] = CopiedUpTo(n)
<1>. DEFINE S == {n \in Nat : Copied[n] = CopiedUpTo(n)}
<1>1. 0 \in S
  <2>1. \A j \in Loads : ~ (j <= 0)
    BY Headers DEF Loads
  <2>2. Covered(0) = {}
    BY <2>1 DEF Covered
  <2>3. CopiedUpTo(0) = <<>>
    BY <2>2 DEF CopiedUpTo
  <2>. QED
    BY <2>3, CopiedUnfolds
<1>2. ASSUME NEW n \in Nat, n \in S PROVE n + 1 \in S
  <2>1. n + 1 \in Nat /\ n + 1 # 0 /\ (n + 1) - 1 = n
    OBVIOUS
  <2>2. Copied[n + 1] = IF n + 1 \in Loads THEN CopySegment(n + 1, Copied[n]) ELSE Copied[n]
    <3>1. \A m \in Nat : m # 0 => Copied[m] =
            IF m \in Loads THEN CopySegment(m, Copied[m - 1]) ELSE Copied[m - 1]
      BY CopiedUnfolds
    <3>. QED
      BY <2>1, <3>1
  <2>3. CopiedUpTo(n + 1) =
          IF n + 1 \in Loads THEN CopySegment(n + 1, CopiedUpTo(n)) ELSE CopiedUpTo(n)
    <3>1. \A m \in Nat : m # 0 => CopiedUpTo(m) =
            IF m \in Loads THEN CopySegment(m, CopiedUpTo(m - 1)) ELSE CopiedUpTo(m - 1)
      BY CopyOneMore
    <3>. QED
      BY <2>1, <3>1
  <2>4. Copied[n] = CopiedUpTo(n)
    BY <1>2
  <2>. QED
    BY <2>1, <2>2, <2>3, <2>4
<1>. HIDE DEF S
<1>3. \A n \in Nat : n \in S
  BY <1>1, <1>2, Induction
<1>. QED
  BY <1>3 DEF S

\* What elf_load writes, and where: the image is placed as its file says.
LEMMA elf_loadPlaces ==
    ASSUME elf \in Elfs
    PROVE  Placed(elf, SegStart .. (SegEnd - 1), Copied[Len(elf.phdr)])
<1>. SUFFICES ASSUME NEW i \in DOMAIN elf.phdr, elf.phdr[i].load
     PROVE  /\ Span(elf.phdr[i]) \subseteq SegStart .. (SegEnd - 1)
            /\ \A b \in 0 .. (elf.phdr[i].memsz - 1) :
                 Copied[Len(elf.phdr)][elf.phdr[i].paddr + b] =
                   IF b < elf.phdr[i].filesz THEN <<i, b>> ELSE ZERO
  BY DEF Placed
<1>1. i \in Loads
  BY DEF Loads
<1>2. Span(elf.phdr[i]) \subseteq SegStart .. (SegEnd - 1)
  BY <1>1, SegmentsCovered
<1>3. ASSUME NEW b \in 0 .. (elf.phdr[i].memsz - 1)
      PROVE  Copied[Len(elf.phdr)][elf.phdr[i].paddr + b] =
               IF b < elf.phdr[i].filesz THEN <<i, b>> ELSE ZERO
  <2>. DEFINE n == Len(elf.phdr)
              a == elf.phdr[i].paddr + b
  <2>1. /\ elf.phdr[i].paddr \in Nat /\ elf.phdr[i].filesz \in Nat
        /\ elf.phdr[i].memsz \in Nat /\ n \in Nat /\ i <= n /\ b \in Nat
    BY Headers
  <2>2. a \in Span(elf.phdr[i])
    BY <2>1 DEF Span
  <2>3. a \in Covered(n) /\ Owner(a) = i
    BY <1>1, <2>1, <2>2, OwnerUnique DEF Covered
  <2>4. Copied[n][a] = Byte(i, a)
    <3>1. Copied[n] = CopiedUpTo(n)
      BY <2>1, CopiedIs
    <3>. HIDE DEF n, a
    <3>2. CopiedUpTo(n)[a] = Byte(Owner(a), a)
      BY <2>3 DEF CopiedUpTo
    <3>. QED
      BY <3>1, <3>2, <2>3
  <2>5. a - elf.phdr[i].paddr = b
        /\ (a < elf.phdr[i].paddr + elf.phdr[i].filesz <=> b < elf.phdr[i].filesz)
    BY <2>1
  <2>. QED
    BY <2>4, <2>5 DEF Byte
<1>. QED
  BY <1>2, <1>3

----------------------------------------------------------------------------
\* The invariant is inductive.

\* It holds when the firmware starts the loader.
LEMMA LoaderInit == Init => LoaderInv
<1>. SUFFICES ASSUME Init PROVE LoaderInv
  OBVIOUS
<1>1. LoaderType
  <2>1. PICK n \in MapSizes : fw = [key |-> 1, size |-> n]
    BY DEF Init
  <2>2. fw \in Map
    BY <2>1, BoundsAssumption DEF Map
  <2>. QED
    BY <2>2 DEF Init, LoaderType, Map, NoMap
<1>2. PoolInv
  BY DEF Init, PoolInv, HoldsNothing, InReadFile
<1>3. fw.key = 1
  BY DEF Init
<1>4. MapInv
  BY <1>3 DEF Init, MapInv, NoMap, MapFitsBuffer, KernelSeesFinalMap, StoresMap
<1>. QED
  BY <1>1, <1>2, <1>4 DEF Init, LoaderInv, Loaded, StoresMap

\* Every step of the loader and of the firmware preserves it.
LEMMA LoaderStep == LoaderInv /\ [Next]_vars => LoaderInv'
<1>. SUFFICES ASSUME LoaderInv, [Next]_vars PROVE LoaderInv'
  OBVIOUS
<1>. USE DEF map
<1>1. /\ LoaderType /\ PoolInv /\ MapInv
      /\ pc \in Loaded => Placed(elf, image, memory)
  BY DEF LoaderInv
<1>2. CASE UNCHANGED vars
  <2>1. LoaderType' /\ PoolInv'
    BY <1>1, <1>2 DEF vars, LoaderType, PoolInv
  <2>2. MapInv'
    BY <1>1, <1>2 DEF vars, MapInv, MapFitsBuffer, KernelSeesFinalMap
  <2>. QED
    BY <1>1, <1>2, <2>1, <2>2 DEF vars, LoaderInv
<1>3. CASE FirmwareChangesMap
  <2>1. PICK n \in MapSizes : fw' = [key |-> fw.key + 1, size |-> n]
    BY <1>3 DEF FirmwareChangesMap
  <2>2. fw' \in Map /\ fw'.key = fw.key + 1 /\ fw.key \in Nat
    BY <1>1, <2>1, BoundsAssumption DEF LoaderType, Map
  <2>3. LoaderType' /\ PoolInv'
    BY <1>1, <1>3, <2>2 DEF FirmwareChangesMap, LoaderType, PoolInv
  <2>4. buffer.key \in Nat
    BY <1>1 DEF LoaderType, Map
  <2>5. MapInv'
    BY <1>1, <1>3, <2>2, <2>4
    DEF FirmwareChangesMap, Running, MapInv, MapFitsBuffer, KernelSeesFinalMap
  <2>. QED
    BY <1>1, <1>3, <2>3, <2>5 DEF FirmwareChangesMap, LoaderInv
<1>4. CASE LocateGop \/ LocateFileSystem \/ OpenVolume \/ OpenFile \/ GetInfoSize
           \/ AllocateInfo \/ GetInfo \/ AllocateBuf \/ ReadFile
  <2>. USE DEF LocateGop, LocateFileSystem, OpenVolume, Service, OpenFile, GetInfoSize,
               AllocateInfo, GetInfo, AllocateBuf, ReadFile, CloseAndFail
  <2>1. LoaderType'
    BY <1>1, <1>4 DEF LoaderType
  <2>2. PoolInv'
    BY <1>1, <1>4 DEF PoolInv, HoldsNothing, InReadFile
  <2>3. MapInv'
    BY <1>1, <1>4
    DEF MapInv, HoldsNothing, InReadFile, StoresMap, MapFitsBuffer, KernelSeesFinalMap
  <2>4. pc' \notin Loaded
    BY <1>4 DEF Loaded, StoresMap
  <2>. QED
    BY <2>1, <2>2, <2>3, <2>4 DEF LoaderInv
<1>5. CASE elf_load
  <2>1. LoaderType' /\ PoolInv'
    BY <1>1, <1>5 DEF elf_load, LoaderType, PoolInv, HoldsNothing, InReadFile
  <2>2. MapInv'
    BY <1>1, <1>5
    DEF elf_load, MapInv, HoldsNothing, InReadFile, StoresMap, MapFitsBuffer, KernelSeesFinalMap
  <2>3. pc' \in Loaded => Placed(elf, image', memory')
    BY <1>1, <1>5, elf_loadPlaces DEF elf_load, Loaded, StoresMap, LoaderType
  <2>. QED
    BY <1>5, <2>1, <2>2, <2>3 DEF elf_load, LoaderInv
<1>6. ASSUME AskMapSize \/ AllocateMap \/ GetMap \/ Exit \/ GetMapAgain \/ ExitAgain
      PROVE  LoaderInv'
  <2>. USE DEF AskMapSize, AllocateMap, GetMap, GetMemoryMap, Exit, GetMapAgain, ExitAgain
  <2>1. fw.size \in Nat /\ fw.key \in Nat /\ buffer.key \in Nat /\ buffer.size \in Nat
    BY <1>1 DEF LoaderType, Map
  <2>2. LoaderType'
    BY <1>1, <1>6, <2>1 DEF LoaderType
  <2>3. PoolInv'
    BY <1>1, <1>6 DEF PoolInv, HoldsNothing, InReadFile
  <2>4. MapInv'
    <3>. USE DEF MapInv, HoldsNothing, InReadFile, StoresMap, MapFitsBuffer,
                 KernelSeesFinalMap, NoMap
    <3>1. map_size \in Nat /\ capacity \in Nat
      BY <1>1 DEF LoaderType
    <3>2. CASE AskMapSize \/ AllocateMap
      BY <1>1, <2>1, <3>1, <3>2
    <3>3. CASE GetMap
      BY <1>1, <2>1, <3>1, <3>3
    <3>4. CASE GetMapAgain
      BY <1>1, <2>1, <3>1, <3>4
    <3>5. CASE Exit \/ ExitAgain
      BY <1>1, <2>1, <3>1, <3>5
    <3>. QED
      BY <1>6, <3>2, <3>3, <3>4, <3>5
  <2>5. pc \in Loaded /\ UNCHANGED <<elf, image, memory>>
    BY <1>6 DEF Loaded, StoresMap
  <2>. QED
    BY <1>1, <2>2, <2>3, <2>4, <2>5 DEF LoaderInv
<1>. QED
  BY <1>2, <1>3, <1>4, <1>5, <1>6 DEF Next

----------------------------------------------------------------------------
\* The theorems.

\* The inductive invariant of efi_main and read_file.
THEOREM LoaderInvariant == Spec => []LoaderInv
<1>. QED
  BY LoaderInit, LoaderStep, PTL DEF Spec

\* read_file leaves no open handle and no description behind on any of its
\* returns, and no buffer when it fails.
THEOREM ReadFileIsClean == Spec => []ReadFileCleansUp
<1>1. LoaderInv => ReadFileCleansUp
  BY DEF LoaderInv, PoolInv, ReadFileCleansUp, HoldsNothing, InReadFile
<1>. QED
  BY <1>1, LoaderInvariant, PTL

\* Whatever the order, alignment, gaps and number of an image's segments,
\* elf_load allocates pages for all of them and writes every byte of each.
THEOREM ImageIsLoaded == Spec => []ImageLoaded
<1>1. LoaderInv => ImageLoaded
  BY DEF LoaderInv, Placed, ImageLoaded, Loads, Loaded, StoresMap
<1>. QED
  BY <1>1, LoaderInvariant, PTL

\* Neither GetMemoryMap call writes past the buffer efi_main allocated, however
\* the firmware's map grows in between.
THEOREM MapStaysInBuffer == Spec => []MapFitsBuffer
<1>1. LoaderInv => MapFitsBuffer
  BY DEF LoaderInv, MapInv
<1>. QED
  BY <1>1, LoaderInvariant, PTL

\* The kernel is entered with the firmware's current map in the buffer, on the
\* first attempt to leave boot services or on the second.
THEOREM KernelGetsCurrentMap == Spec => []KernelSeesFinalMap
<1>1. LoaderInv => KernelSeesFinalMap
  BY DEF LoaderInv, MapInv
<1>. QED
  BY <1>1, LoaderInvariant, PTL
=============================================================================
