----------------------------- MODULE VmmProofs -----------------------------
(***************************************************************************)
(* Theorems about Vmm, for every size of tables, every machine, every set  *)
(* of addresses and every order of calls.                                  *)
(***************************************************************************)
EXTENDS Vmm, FiniteSetTheorems, WellFoundedInduction, TLAPS

\* The walks of Vmm over tables m that need not be those of a state.
EntryIn(m, t, i) == IF t = ABSENT THEN ABSENT ELSE m[t][i]
TableIn(m, r, a, b, c) == EntryIn(m, EntryIn(m, EntryIn(m, r, a), b), c)
PhysIn(m, r, a, b, c, d) == EntryIn(m, TableIn(m, r, a, b, c), d)

\* What an entry can hold.
Values == Nat \cup {ABSENT}

\* lv gives every table one of the levels 4 (a root) to 1; entries of a table
\* above level 1 lead one level down, and no two of them lead to the same
\* table, except that roots share tables at the same index.
Leveled(m, lv) ==
    \A t \in DOMAIN m, i \in Index :
       lv[t] > 1 /\ m[t][i] # ABSENT =>
          m[t][i] \in DOMAIN m /\ lv[m[t][i]] = lv[t] - 1
OneParent(m, lv) ==
    \A t, u \in DOMAIN m, i, j \in Index :
       /\ lv[t] > 1 /\ lv[u] > 1
       /\ m[t][i] = m[u][j] /\ m[t][i] # ABSENT
       => i = j /\ (t = u \/ lv[t] = 4)
IsTables(m, lv) ==
    /\ DOMAIN lv = DOMAIN m
    /\ \A t \in DOMAIN m :
          /\ t \in Nat \ {0} /\ lv[t] \in 1 .. 4
          /\ m[t] \in [Index -> Values]
Forest(m, lv) == IsTables(m, lv) /\ Leveled(m, lv) /\ OneParent(m, lv)

\* Where a walk stands after 4 - level steps.
AtLevel(m, lv, t, level) == t = ABSENT \/ (t \in DOMAIN m /\ lv[t] = level)

Digits(v) == <<PML4_INDEX(v), PDPT_INDEX(v), PD_INDEX(v), PT_INDEX(v)>>
----------------------------------------------------------------------------
\* Arithmetic of the digits of an address.

LEMMA Entries == TABLE_ENTRIES \in Nat \ {0, 1}
BY SpaceAssumption

LEMMA DivDiv ==
    ASSUME NEW a \in Nat, NEW b \in Nat \ {0}, NEW c \in Nat \ {0}
    PROVE  a \div (b * c) = (a \div b) \div c
OBVIOUS

LEMMA DivMod ==
    ASSUME NEW a \in Nat, NEW b \in Nat \ {0}
    PROVE  /\ a = b * (a \div b) + (a % b)
           /\ a \div b \in Nat /\ a % b \in 0 .. (b - 1)
OBVIOUS

LEMMA SmallMod ==
    ASSUME NEW a \in Nat, NEW b \in Nat, a < b
    PROVE  a % b = a
OBVIOUS

\* The digits index tables.
LEMMA DigitsAreIndices ==
    ASSUME NEW v \in Nat
    PROVE  /\ PML4_INDEX(v) \in Index /\ PDPT_INDEX(v) \in Index
           /\ PD_INDEX(v) \in Index /\ PT_INDEX(v) \in Index
<1>. DEFINE T == TABLE_ENTRIES
<1>1. T \in Nat \ {0, 1}  BY Entries
<1>2. T * T \in Nat \ {0} /\ T * T * T \in Nat \ {0}
  <2>1. T * T \in Nat /\ T * T > 0  BY <1>1
  <2>2. (T * T) * T \in Nat /\ (T * T) * T > 0  BY <1>1, <2>1
  <2>. QED  BY <2>1, <2>2
<1>. HIDE DEF T
<1>3. v \div (T * T * T) \in Nat /\ v \div (T * T) \in Nat /\ v \div T \in Nat
  BY <1>1, <1>2, DivMod
<1>4. /\ (v \div (T * T * T)) % T \in 0 .. (T - 1)
      /\ (v \div (T * T)) % T \in 0 .. (T - 1)
      /\ (v \div T) % T \in 0 .. (T - 1) /\ v % T \in 0 .. (T - 1)
  BY <1>1, <1>3, DivMod
<1>. QED
  BY <1>4 DEF T, PML4_INDEX, PDPT_INDEX, PD_INDEX, PT_INDEX, Index

\* Two addresses of the virtual space differ in some digit.
LEMMA DigitsDetermine ==
    ASSUME NEW v \in 0 .. (VirtPages - 1), NEW u \in 0 .. (VirtPages - 1),
           Digits(v) = Digits(u)
    PROVE  v = u
<1>. DEFINE T == TABLE_ENTRIES
            q1(x) == x \div T
            q2(x) == q1(x) \div T
            q3(x) == q2(x) \div T
<1>1. T \in Nat \ {0, 1}  BY Entries
<1>2. T * T \in Nat \ {0}
  BY <1>1
<1>3. ASSUME NEW x \in 0 .. (VirtPages - 1)
      PROVE  /\ q1(x) \in Nat /\ q2(x) \in Nat /\ q3(x) \in 0 .. (T - 1)
             /\ Digits(x) = <<q3(x), q2(x) % T, q1(x) % T, x % T>>
             /\ x = T * q1(x) + (x % T)
             /\ q1(x) = T * q2(x) + (q1(x) % T)
             /\ q2(x) = T * q3(x) + (q2(x) % T)
  <2>0. x \in Nat /\ x < T * T * T * T
    <3>1. T * T * T * T \in Nat  BY <1>1
    <3>. QED  BY <3>1 DEF VirtPages
  <2>1. q1(x) \in Nat /\ x = T * q1(x) + (x % T) /\ x % T \in 0 .. (T - 1)
    BY <1>1, <2>0, DivMod
  <2>. HIDE DEF q1
  <2>2. q2(x) \in Nat /\ q1(x) = T * q2(x) + (q1(x) % T) /\ q1(x) % T \in 0 .. (T - 1)
    BY <1>1, <2>1, DivMod
  <2>. HIDE DEF q2
  <2>3. q3(x) \in Nat /\ q2(x) = T * q3(x) + (q2(x) % T) /\ q2(x) % T \in 0 .. (T - 1)
    BY <1>1, <2>2, DivMod
  <2>. HIDE DEF q3, T
  <2>4. q3(x) < T
    <3>1. SUFFICES ASSUME q3(x) >= T PROVE FALSE  BY <2>3, <1>1
    <3>2. q2(x) >= T * T
      <4>1. T * q3(x) >= T * T  BY <1>1, <2>3, <3>1
      <4>. QED  BY <4>1, <1>1, <2>2, <2>3
    <3>3. q1(x) >= T * T * T
      <4>1. T * q2(x) >= T * (T * T)  BY <1>1, <1>2, <2>2, <3>2
      <4>. QED  BY <4>1, <1>1, <2>1, <2>2
    <3>4. x >= T * T * T * T
      <4>0. T * T * T \in Nat  BY <1>1
      <4>1. T * q1(x) >= T * (T * T * T)  BY <1>1, <4>0, <2>1, <3>3
      <4>. QED  BY <4>1, <1>1, <2>0, <2>1
    <3>. QED  BY <3>4, <2>0, <1>1
  <2>5. /\ x \div (T * T) = q2(x)
        /\ x \div (T * T * T) = q3(x)
    <3>1. x \div (T * T) = q2(x)
      <4>1. T \in Nat \ {0} /\ x \in Nat  BY <1>1, <2>0
      <4>2. x \div (T * T) = (x \div T) \div T  BY <4>1, DivDiv, Zenon
      <4>. QED  BY <4>2 DEF q1, q2
    <3>2. x \div ((T * T) * T) = (x \div (T * T)) \div T
      <4>1. T \in Nat \ {0} /\ T * T \in Nat \ {0} /\ x \in Nat  BY <1>1, <1>2, <2>0
      <4>. QED  BY <4>1, DivDiv, Zenon
    <3>. QED  BY <3>1, <3>2 DEF q3
  <2>6. q3(x) % T = q3(x)
    BY <2>3, <2>4, <1>1, SmallMod
  <2>7. Digits(x) = <<q3(x), q2(x) % T, q1(x) % T, x % T>>
    BY <2>5, <2>6 DEF Digits, PML4_INDEX, PDPT_INDEX, PD_INDEX, PT_INDEX, T, q1
  <2>. QED  BY <2>0, <2>1, <2>2, <2>3, <2>4, <2>7, <1>1
<1>. HIDE DEF q1, q2, q3, T
<1>4. /\ q3(v) = q3(u) /\ q2(v) % T = q2(u) % T /\ q1(v) % T = q1(u) % T
      /\ v % T = u % T
  <2>1. <<q3(v), q2(v) % T, q1(v) % T, v % T>> = <<q3(u), q2(u) % T, q1(u) % T, u % T>>
    BY <1>3
  <2>. QED  BY <2>1
<1>5. q2(v) = q2(u)  BY <1>3, <1>4
<1>6. q1(v) = q1(u)  BY <1>3, <1>4, <1>5
<1>. QED  BY <1>3, <1>4, <1>6
----------------------------------------------------------------------------
\* The three ways the tables change: a new table is linked at an absent entry,
\* an entry of a lowest-level table is set, a root is copied.

Linked(m, t, i, page) == With([m EXCEPT ![t][i] = page], page, ZeroTable)

\* n is m with page, an empty table, linked at entry i of t.
IsLinked(n, m, t, i, page) ==
    /\ DOMAIN n = DOMAIN m \cup {page}
    /\ n[page] \in [Index -> Values] /\ \A j \in Index : n[page][j] = ABSENT
    /\ \A x \in DOMAIN m : n[x] \in [Index -> Values]
    /\ \A x \in DOMAIN m, j \in Index :
          n[x][j] = IF x = t /\ j = i THEN page ELSE m[x][j]

\* What linking needs: a table above the lowest level with an absent entry,
\* and a page that is no table yet.
CanLink(m, lv, t, i, page) ==
    /\ Forest(m, lv)
    /\ t \in DOMAIN m /\ lv[t] \in 2 .. 4 /\ i \in Index /\ m[t][i] = ABSENT
    /\ page \in Nat \ {0} /\ page \notin DOMAIN m

LEMMA LinkedEntries ==
    ASSUME NEW m, NEW lv, NEW t, NEW i, NEW page, CanLink(m, lv, t, i, page)
    PROVE  IsLinked(Linked(m, t, i, page), m, t, i, page)
<1>. DEFINE n == Linked(m, t, i, page)
            e == [m EXCEPT ![t][i] = page]
<1>0. /\ t \in DOMAIN m /\ i \in Index /\ page \in Nat /\ page \notin DOMAIN m
      /\ \A x \in DOMAIN m : m[x] \in [Index -> Values]
  BY DEF CanLink, Forest, IsTables
<1>1. DOMAIN n = DOMAIN m \cup {page} /\ n[page] = ZeroTable
  BY DEF Linked, With
<1>2. ASSUME NEW x \in DOMAIN m
      PROVE  /\ n[x] \in [Index -> Values]
             /\ \A j \in Index : n[x][j] = IF x = t /\ j = i THEN page ELSE m[x][j]
  <2>1. n[x] = e[x]
    BY <1>0 DEF Linked, With
  <2>2. e[x] = IF x = t THEN [m[t] EXCEPT ![i] = page] ELSE m[x]
    OBVIOUS
  <2>. HIDE DEF n, e
  <2>3. page \in Values /\ m[x] \in [Index -> Values] /\ m[t] \in [Index -> Values]
    BY <1>0 DEF Values
  <2>. QED  BY <1>0, <2>1, <2>2, <2>3
<1>. HIDE DEF n
<1>3. ZeroTable \in [Index -> Values] /\ \A j \in Index : ZeroTable[j] = ABSENT
  BY DEF ZeroTable, Values
<1>. QED
  BY <1>1, <1>2, <1>3 DEF n, IsLinked

LEMMA NoAbsentTable ==
    ASSUME NEW m, NEW lv, IsTables(m, lv)
    PROVE  ABSENT \notin DOMAIN m
BY DEF IsTables, ABSENT

\* One step of a walk goes one level down.
LEMMA Down ==
    ASSUME NEW m, NEW lv, Forest(m, lv), NEW level \in 2 .. 4, NEW i \in Index,
           NEW t, AtLevel(m, lv, t, level)
    PROVE  AtLevel(m, lv, EntryIn(m, t, i), level - 1)
BY NoAbsentTable DEF Forest, Leveled, AtLevel, EntryIn

LEMMA TableLevels ==
    ASSUME NEW m, NEW lv, Forest(m, lv), NEW r, AtLevel(m, lv, r, 4),
           NEW a \in Index, NEW b \in Index, NEW c \in Index
    PROVE  /\ AtLevel(m, lv, EntryIn(m, r, a), 3)
           /\ AtLevel(m, lv, EntryIn(m, EntryIn(m, r, a), b), 2)
           /\ AtLevel(m, lv, TableIn(m, r, a, b, c), 1)
<1>1. AtLevel(m, lv, EntryIn(m, r, a), 3)
  BY Down
<1>2. AtLevel(m, lv, EntryIn(m, EntryIn(m, r, a), b), 2)
  BY <1>1, Down
<1>3. AtLevel(m, lv, TableIn(m, r, a, b, c), 1)
  BY <1>2, Down DEF TableIn
<1>. QED  BY <1>1, <1>2, <1>3

LEMMA LinkKeepsForest ==
    ASSUME NEW m, NEW lv, NEW t, NEW i, NEW page, CanLink(m, lv, t, i, page)
    PROVE  Forest(Linked(m, t, i, page), With(lv, page, lv[t] - 1))
<1>. DEFINE n == Linked(m, t, i, page)
            ln == With(lv, page, lv[t] - 1)
<1>1. IsLinked(n, m, t, i, page)
  BY LinkedEntries
<1>2. /\ DOMAIN ln = DOMAIN m \cup {page} /\ ln[page] = lv[t] - 1
      /\ \A x \in DOMAIN m : ln[x] = lv[x]
  BY DEF With, CanLink, Forest, IsTables
<1>. HIDE DEF n, ln
<1>3. IsTables(n, ln)
  BY <1>1, <1>2 DEF IsTables, IsLinked, CanLink, Forest
<1>. USE DEF CanLink, Forest, IsTables
<1>4. Leveled(n, ln)
  <2>. SUFFICES ASSUME NEW x \in DOMAIN n, NEW j \in Index, ln[x] > 1, n[x][j] # ABSENT
                PROVE  n[x][j] \in DOMAIN n /\ ln[n[x][j]] = ln[x] - 1
    BY DEF Leveled
  <2>1. x \in DOMAIN m
    BY <1>1 DEF IsLinked
  <2>2. CASE x = t /\ j = i
    BY <1>1, <1>2, <2>2 DEF IsLinked
  <2>3. CASE ~(x = t /\ j = i)
    BY <1>1, <1>2, <2>1, <2>3 DEF IsLinked, Leveled
  <2>. QED  BY <2>2, <2>3
<1>5. OneParent(n, ln)
  <2>. SUFFICES ASSUME NEW x \in DOMAIN n, NEW y \in DOMAIN n, NEW j \in Index, NEW k \in Index,
                       ln[x] > 1, ln[y] > 1, n[x][j] = n[y][k], n[x][j] # ABSENT
                PROVE  j = k /\ (x = y \/ ln[x] = 4)
    BY DEF OneParent
  <2>1. x \in DOMAIN m /\ y \in DOMAIN m
    BY <1>1 DEF IsLinked
  <2>2. \A z \in DOMAIN m, l \in Index : lv[z] > 1 => m[z][l] # page
    BY DEF Leveled, ABSENT
  <2>3. CASE x = t /\ j = i
    BY <1>1, <1>2, <2>1, <2>2, <2>3 DEF IsLinked
  <2>4. CASE ~(x = t /\ j = i)
    BY <1>1, <1>2, <2>1, <2>2, <2>4 DEF IsLinked, OneParent
  <2>. QED  BY <2>3, <2>4
<1>. QED
  BY <1>3, <1>4, <1>5 DEF n, ln

\* A walk through the tables before and after a page is linked: it stands at
\* the same place, or at the empty page instead of nowhere.
Follows(x2, x, page) == x2 = x \/ (x = ABSENT /\ x2 = page)

LEMMA LinkFollows ==
    ASSUME NEW m, NEW lv, NEW t, NEW i, NEW page, CanLink(m, lv, t, i, page),
           NEW level \in 1 .. 4, NEW x, AtLevel(m, lv, x, level), NEW x2,
           Follows(x2, x, page), NEW j \in Index
    PROVE  /\ Follows(EntryIn(Linked(m, t, i, page), x2, j), EntryIn(m, x, j), page)
           /\ level = 1 =>
                 EntryIn(Linked(m, t, i, page), x2, j) = EntryIn(m, x, j)
<1>. DEFINE n == Linked(m, t, i, page)
<1>1. IsLinked(n, m, t, i, page)
  BY LinkedEntries
<1>2. page # ABSENT /\ lv[t] # 1 /\ m[t][i] = ABSENT /\ page \notin DOMAIN m
      /\ ABSENT \notin DOMAIN m
  BY NoAbsentTable DEF CanLink, ABSENT, Forest
<1>. HIDE DEF n
<1>. SUFFICES /\ Follows(EntryIn(n, x2, j), EntryIn(m, x, j), page)
              /\ level = 1 => EntryIn(n, x2, j) = EntryIn(m, x, j)
  BY DEF n
<1>3. CASE x2 = page /\ x = ABSENT
  BY <1>1, <1>2, <1>3 DEF EntryIn, Follows, IsLinked
<1>4. CASE x2 = x /\ x = ABSENT
  BY <1>4 DEF EntryIn, Follows
<1>5. CASE x2 = x /\ x \in DOMAIN m /\ lv[x] = level
  <2>1. EntryIn(n, x2, j) = n[x][j] /\ EntryIn(m, x, j) = m[x][j]
    BY <1>2, <1>5 DEF EntryIn
  <2>2. n[x][j] = IF x = t /\ j = i THEN page ELSE m[x][j]
    BY <1>1, <1>5 DEF IsLinked
  <2>. QED  BY <1>2, <1>5, <2>1, <2>2 DEF Follows
<1>. QED
  BY <1>3, <1>4, <1>5 DEF AtLevel, Follows

\* Linking an empty table changes no translation.
LEMMA LinkKeepsPhys ==
    ASSUME NEW m, NEW lv, NEW t, NEW i, NEW page, CanLink(m, lv, t, i, page),
           NEW r, AtLevel(m, lv, r, 4),
           NEW a \in Index, NEW b \in Index, NEW c \in Index, NEW d \in Index
    PROVE  PhysIn(Linked(m, t, i, page), r, a, b, c, d) = PhysIn(m, r, a, b, c, d)
<1>. DEFINE n == Linked(m, t, i, page)
            x3 == EntryIn(m, r, a)
            x2 == EntryIn(m, x3, b)
            x1 == EntryIn(m, x2, c)
            y3 == EntryIn(n, r, a)
            y2 == EntryIn(n, y3, b)
            y1 == EntryIn(n, y2, c)
<1>0. Forest(m, lv) /\ Follows(r, r, page)
  BY DEF CanLink, Follows
<1>1. AtLevel(m, lv, x3, 3) /\ AtLevel(m, lv, x2, 2) /\ AtLevel(m, lv, x1, 1)
  BY <1>0, TableLevels DEF TableIn
<1>2. Follows(y3, x3, page)  BY <1>0, LinkFollows
<1>. HIDE DEF x3, y3
<1>3. Follows(y2, x2, page)  BY <1>1, <1>2, LinkFollows
<1>. HIDE DEF x2, y2
<1>4. Follows(y1, x1, page)  BY <1>1, <1>3, LinkFollows
<1>. HIDE DEF x1, y1
<1>5. EntryIn(n, y1, d) = EntryIn(m, x1, d)  BY <1>1, <1>4, LinkFollows
<1>. QED
  BY <1>5 DEF PhysIn, TableIn, x1, x2, x3, y1, y2, y3
\* A lowest-level table is reached by one path, whatever the root.
LEMMA OnePath ==
    ASSUME NEW m, NEW lv, Forest(m, lv), NEW r, AtLevel(m, lv, r, 4),
           NEW s, AtLevel(m, lv, s, 4),
           NEW a \in Index, NEW b \in Index, NEW c \in Index,
           NEW a2 \in Index, NEW b2 \in Index, NEW c2 \in Index,
           TableIn(m, r, a, b, c) = TableIn(m, s, a2, b2, c2),
           TableIn(m, r, a, b, c) # ABSENT
    PROVE  a = a2 /\ b = b2 /\ c = c2
<1>. DEFINE x3 == EntryIn(m, r, a)
            x2 == EntryIn(m, x3, b)
            y3 == EntryIn(m, s, a2)
            y2 == EntryIn(m, y3, b2)
<1>1. /\ AtLevel(m, lv, x3, 3) /\ AtLevel(m, lv, x2, 2)
      /\ AtLevel(m, lv, y3, 3) /\ AtLevel(m, lv, y2, 2)
  BY TableLevels
<1>2. ASSUME NEW t, NEW u, NEW i \in Index, NEW j \in Index, NEW level \in 2 .. 4,
             AtLevel(m, lv, t, level), AtLevel(m, lv, u, level),
             EntryIn(m, t, i) = EntryIn(m, u, j), EntryIn(m, t, i) # ABSENT
      PROVE  i = j /\ (level # 4 => t = u) /\ t # ABSENT /\ u # ABSENT
  BY <1>2 DEF Forest, OneParent, AtLevel, EntryIn
<1>. HIDE DEF x2, x3, y2, y3
<1>3. EntryIn(m, x2, c) = EntryIn(m, y2, c2) /\ EntryIn(m, x2, c) # ABSENT
  BY DEF TableIn, x2, x3, y2, y3
<1>4. c = c2 /\ x2 = y2 /\ x2 # ABSENT
  BY <1>1, <1>2, <1>3
<1>5. EntryIn(m, x3, b) = EntryIn(m, y3, b2) /\ EntryIn(m, x3, b) # ABSENT
  BY <1>4 DEF x2, y2
<1>6. b = b2 /\ x3 = y3 /\ x3 # ABSENT
  BY <1>1, <1>2, <1>5
<1>7. EntryIn(m, r, a) = EntryIn(m, s, a2) /\ EntryIn(m, r, a) # ABSENT
  BY <1>6 DEF x3, y3
<1>8. a = a2
  BY <1>2, <1>7
<1>. QED  BY <1>4, <1>6, <1>8

Put(m, t, d, value) == [m EXCEPT ![t][d] = value]
CanPut(m, lv, t, d, value) ==
    /\ Forest(m, lv)
    /\ t \in DOMAIN m /\ lv[t] = 1 /\ d \in Index /\ value \in Values

LEMMA PutEntries ==
    ASSUME NEW m, NEW lv, NEW t, NEW d, NEW value, CanPut(m, lv, t, d, value)
    PROVE  /\ DOMAIN Put(m, t, d, value) = DOMAIN m
           /\ \A x \in DOMAIN m : Put(m, t, d, value)[x] \in [Index -> Values]
           /\ \A x \in DOMAIN m, j \in Index :
                 Put(m, t, d, value)[x][j] = IF x = t /\ j = d THEN value ELSE m[x][j]
<1>. DEFINE n == Put(m, t, d, value)
<1>1. \A x \in DOMAIN m : m[x] \in [Index -> Values]
  BY DEF CanPut, Forest, IsTables
<1>2. DOMAIN n = DOMAIN m
      /\ \A x \in DOMAIN m : n[x] = IF x = t THEN [m[t] EXCEPT ![d] = value] ELSE m[x]
  BY DEF Put
<1>. HIDE DEF n
<1>3. value \in Values /\ d \in Index /\ m[t] \in [Index -> Values]
  BY <1>1 DEF CanPut
<1>4. /\ [m[t] EXCEPT ![d] = value] \in [Index -> Values]
      /\ \A j \in Index : [m[t] EXCEPT ![d] = value][j] = IF j = d THEN value ELSE m[t][j]
  BY <1>3
<1>5. /\ DOMAIN n = DOMAIN m
      /\ \A x \in DOMAIN m : n[x] \in [Index -> Values]
      /\ \A x \in DOMAIN m, j \in Index :
            n[x][j] = IF x = t /\ j = d THEN value ELSE m[x][j]
  BY <1>1, <1>2, <1>4
<1>. QED
  BY <1>5 DEF n

LEMMA PutKeepsForest ==
    ASSUME NEW m, NEW lv, NEW t, NEW d, NEW value, CanPut(m, lv, t, d, value)
    PROVE  Forest(Put(m, t, d, value), lv)
<1>. DEFINE n == Put(m, t, d, value)
<1>1. /\ DOMAIN n = DOMAIN m
      /\ \A x \in DOMAIN m : n[x] \in [Index -> Values]
      /\ \A x \in DOMAIN m, j \in Index :
            n[x][j] = IF x = t /\ j = d THEN value ELSE m[x][j]
  BY PutEntries
<1>. HIDE DEF n
<1>2. /\ Forest(m, lv) /\ lv[t] = 1
      /\ \A x \in DOMAIN m, j \in Index : lv[x] > 1 => n[x][j] = m[x][j]
  BY <1>1 DEF CanPut
<1>3. IsTables(n, lv)
  BY <1>1, <1>2 DEF Forest, IsTables
<1>4. Leveled(n, lv)
  BY <1>1, <1>2 DEF Forest, Leveled
<1>5. OneParent(n, lv)
  BY <1>1, <1>2 DEF Forest, OneParent
<1>. QED
  BY <1>3, <1>4, <1>5 DEF Forest, n

LEMMA PutPhys ==
    ASSUME NEW m, NEW lv, NEW t, NEW d, NEW value, CanPut(m, lv, t, d, value),
           NEW r, AtLevel(m, lv, r, 4),
           NEW a \in Index, NEW b \in Index, NEW c \in Index, NEW e \in Index
    PROVE  /\ TableIn(Put(m, t, d, value), r, a, b, c) = TableIn(m, r, a, b, c)
           /\ PhysIn(Put(m, t, d, value), r, a, b, c, e)
                = IF TableIn(m, r, a, b, c) = t /\ e = d THEN value
                  ELSE PhysIn(m, r, a, b, c, e)
<1>. DEFINE n == Put(m, t, d, value)
<1>1. /\ DOMAIN n = DOMAIN m
      /\ \A x \in DOMAIN m, j \in Index :
            n[x][j] = IF x = t /\ j = d THEN value ELSE m[x][j]
  BY PutEntries
<1>2. Forest(m, lv) /\ lv[t] = 1 /\ t \in DOMAIN m /\ ABSENT \notin DOMAIN m
  BY NoAbsentTable DEF CanPut, Forest
<1>. HIDE DEF n
<1>3. ASSUME NEW x, NEW level \in 2 .. 4, AtLevel(m, lv, x, level), NEW j \in Index
      PROVE  EntryIn(n, x, j) = EntryIn(m, x, j)
  BY <1>1, <1>2, <1>3 DEF EntryIn, AtLevel
<1>4. /\ AtLevel(m, lv, EntryIn(m, r, a), 3)
      /\ AtLevel(m, lv, EntryIn(m, EntryIn(m, r, a), b), 2)
      /\ AtLevel(m, lv, TableIn(m, r, a, b, c), 1)
  BY <1>2, TableLevels
<1>5. TableIn(n, r, a, b, c) = TableIn(m, r, a, b, c)
  <2>1. EntryIn(n, r, a) = EntryIn(m, r, a)
    BY <1>3
  <2>2. EntryIn(n, EntryIn(m, r, a), b) = EntryIn(m, EntryIn(m, r, a), b)
    BY <1>3, <1>4
  <2>3. EntryIn(n, EntryIn(m, EntryIn(m, r, a), b), c)
          = EntryIn(m, EntryIn(m, EntryIn(m, r, a), b), c)
    BY <1>3, <1>4
  <2>. QED  BY <2>1, <2>2, <2>3, Zenon DEF TableIn
<1>6. EntryIn(n, TableIn(m, r, a, b, c), e)
        = IF TableIn(m, r, a, b, c) = t /\ e = d THEN value
          ELSE EntryIn(m, TableIn(m, r, a, b, c), e)
  BY <1>1, <1>2, <1>4 DEF EntryIn, AtLevel
<1>. QED
  BY <1>5, <1>6, Zenon DEF PhysIn, n

\* A copy of a root translates as the root does.
CanCopy(m, lv, root, page) ==
    /\ Forest(m, lv) /\ root \in DOMAIN m /\ lv[root] = 4
    /\ page \in Nat \ {0} /\ page \notin DOMAIN m

LEMMA CopyKeepsForest ==
    ASSUME NEW m, NEW lv, NEW root, NEW page, CanCopy(m, lv, root, page)
    PROVE  Forest(With(m, page, m[root]), With(lv, page, 4))
<1>. DEFINE n == With(m, page, m[root])
            ln == With(lv, page, 4)
<1>1. /\ DOMAIN n = DOMAIN m \cup {page} /\ n[page] = m[root]
      /\ \A x \in DOMAIN m : n[x] = m[x]
  BY DEF With, CanCopy
<1>2. /\ DOMAIN ln = DOMAIN m \cup {page} /\ ln[page] = 4
      /\ \A x \in DOMAIN m : ln[x] = lv[x]
  BY DEF With, CanCopy, Forest, IsTables
<1>. HIDE DEF n, ln
<1>. USE DEF CanCopy, Forest, IsTables
<1>3. IsTables(n, ln)
  BY <1>1, <1>2
<1>4. Leveled(n, ln)
  BY <1>1, <1>2 DEF Leveled
<1>5. OneParent(n, ln)
  <2>. SUFFICES ASSUME NEW x \in DOMAIN n, NEW y \in DOMAIN n, NEW j \in Index, NEW k \in Index,
                       ln[x] > 1, ln[y] > 1, n[x][j] = n[y][k], n[x][j] # ABSENT
                PROVE  j = k /\ (x = y \/ ln[x] = 4)
    BY DEF OneParent
  <2>. DEFINE old(z) == IF z = page THEN root ELSE z
  <2>1. /\ old(x) \in DOMAIN m /\ old(y) \in DOMAIN m
        /\ n[x] = m[old(x)] /\ n[y] = m[old(y)]
        /\ ln[x] = lv[old(x)] /\ ln[y] = lv[old(y)]
    BY <1>1, <1>2
  <2>2. j = k /\ (old(x) = old(y) \/ lv[old(x)] = 4)
    BY <2>1 DEF OneParent
  <2>. QED  BY <1>2, <2>1, <2>2
<1>. QED
  BY <1>3, <1>4, <1>5 DEF n, ln

LEMMA CopyPhys ==
    ASSUME NEW m, NEW lv, NEW root, NEW page, CanCopy(m, lv, root, page),
           NEW r \in DOMAIN m, lv[r] = 4,
           NEW a \in Index, NEW b \in Index, NEW c \in Index, NEW d \in Index
    PROVE  /\ PhysIn(With(m, page, m[root]), r, a, b, c, d) = PhysIn(m, r, a, b, c, d)
           /\ PhysIn(With(m, page, m[root]), page, a, b, c, d)
                = PhysIn(m, root, a, b, c, d)
<1>. DEFINE n == With(m, page, m[root])
<1>1. /\ DOMAIN n = DOMAIN m \cup {page} /\ n[page] = m[root]
      /\ \A x \in DOMAIN m : n[x] = m[x]
  BY DEF With, CanCopy
<1>2. Forest(m, lv) /\ page # ABSENT /\ root \in DOMAIN m /\ lv[root] = 4
      /\ ABSENT \notin DOMAIN m /\ page \notin DOMAIN m
  BY NoAbsentTable DEF CanCopy, ABSENT, Forest
<1>. HIDE DEF n
<1>3. ASSUME NEW x, NEW level \in 1 .. 4, AtLevel(m, lv, x, level), NEW j \in Index
      PROVE  EntryIn(n, x, j) = EntryIn(m, x, j)
  BY <1>1, <1>2, <1>3 DEF EntryIn, AtLevel
<1>4. EntryIn(n, page, a) = EntryIn(m, root, a)
  BY <1>1, <1>2 DEF EntryIn
<1>5. ASSUME NEW s \in DOMAIN m, lv[s] = 4
      PROVE  /\ AtLevel(m, lv, s, 4) /\ AtLevel(m, lv, EntryIn(m, s, a), 3)
             /\ AtLevel(m, lv, EntryIn(m, EntryIn(m, s, a), b), 2)
             /\ AtLevel(m, lv, TableIn(m, s, a, b, c), 1)
  BY <1>2, <1>5, TableLevels DEF AtLevel
<1>6. ASSUME NEW s \in DOMAIN m, lv[s] = 4, NEW x, EntryIn(n, x, a) = EntryIn(m, s, a)
      PROVE  PhysIn(n, x, a, b, c, d) = PhysIn(m, s, a, b, c, d)
  <2>1. EntryIn(n, EntryIn(m, s, a), b) = EntryIn(m, EntryIn(m, s, a), b)
    BY <1>3, <1>5, <1>6
  <2>2. EntryIn(n, EntryIn(m, EntryIn(m, s, a), b), c) = TableIn(m, s, a, b, c)
    BY <1>3, <1>5, <1>6 DEF TableIn
  <2>3. EntryIn(n, TableIn(m, s, a, b, c), d) = PhysIn(m, s, a, b, c, d)
    BY <1>3, <1>5, <1>6 DEF PhysIn
  <2>. QED  BY <1>6, <2>1, <2>2, <2>3, Zenon DEF PhysIn, TableIn
<1>7. EntryIn(n, r, a) = EntryIn(m, r, a)
  BY <1>3, <1>5
<1>. QED
  BY <1>2, <1>4, <1>6, <1>7 DEF n
----------------------------------------------------------------------------
\* The walk that creates tables.

LEMMA LeastNat ==
    ASSUME NEW S \in SUBSET Nat, S # {}
    PROVE  \E s \in S : \A t \in S : s <= t
<1>. DEFINE R == OpToRel(<, Nat)
<1>1. IsWellFoundedOn(R, Nat)
  BY NatLessThanWellFounded
<1>2. \A x, y \in Nat : y < x => <<y, x>> \in R
  BY DEF OpToRel
<1>. HIDE DEF R
<1>3. \E x \in S : \A y \in S : ~ (<<y, x>> \in R)
  BY <1>1, WFMin
<1>4. \E x \in S : \A y \in S : ~ (y < x)
  BY <1>2, <1>3, Zenon
<1>. QED
  BY <1>4

LEMMA LowestIsFree ==
    ASSUME NEW f \in SUBSET Nat, f # {}
    PROVE  Lowest(f) \in f
<1>1. \E p \in f : \A q \in f : p <= q
  BY LeastNat
<1>. QED
  BY <1>1, Zenon DEF Lowest

\* pmm_alloc_page gives a free page, or 0 when there is none.
LEMMA AllocFree ==
    ASSUME NEW f \in SUBSET (Nat \ {0})
    PROVE  pmm_alloc_page(f) # 0 => pmm_alloc_page(f) \in f
BY LowestIsFree DEF pmm_alloc_page

\* What such a walk keeps: from tables m, levels lv and free pages f it leads to
\* n, ln and g, and changes no translation.
SamePhys(m, lv, n) ==
    \A r : AtLevel(m, lv, r, 4) =>
       \A a, b, c, d \in Index : PhysIn(n, r, a, b, c, d) = PhysIn(m, r, a, b, c, d)
Grows(m, lv, f, n, ln, g) ==
    /\ Forest(n, ln)
    /\ DOMAIN m \subseteq DOMAIN n /\ \A x \in DOMAIN m : ln[x] = lv[x]
    /\ g \subseteq f /\ DOMAIN n \subseteq DOMAIN m \cup (f \ g)
    /\ \A x \in DOMAIN m, i \in Index :
          lv[x] > 1 /\ m[x][i] # ABSENT => n[x][i] = m[x][i]
    /\ SamePhys(m, lv, n)

PoolOf(m, f) == f \subseteq Nat \ {0} /\ DOMAIN m \cap f = {}

LEMMA GrowsRefl ==
    ASSUME NEW m, NEW lv, NEW f, Forest(m, lv)
    PROVE  Grows(m, lv, f, m, lv, f)
BY DEF Grows, SamePhys

LEMMA GrowsPool ==
    ASSUME NEW m, NEW lv, NEW f, NEW n, NEW ln, NEW g,
           PoolOf(m, f), Grows(m, lv, f, n, ln, g)
    PROVE  Forest(n, ln) /\ PoolOf(n, g)
BY DEF Grows, PoolOf

LEMMA GrowsTrans ==
    ASSUME NEW m, NEW lv, NEW f, NEW n, NEW ln, NEW g, NEW o, NEW lo, NEW h,
           Forest(m, lv), PoolOf(m, f),
           Grows(m, lv, f, n, ln, g), Grows(n, ln, g, o, lo, h)
    PROVE  Grows(m, lv, f, o, lo, h)
<1>1. SamePhys(m, lv, o)
  <2>. SUFFICES ASSUME NEW r, AtLevel(m, lv, r, 4), NEW a \in Index, NEW b \in Index,
                       NEW c \in Index, NEW d \in Index
                PROVE  PhysIn(o, r, a, b, c, d) = PhysIn(m, r, a, b, c, d)
    BY DEF SamePhys
  <2>1. AtLevel(n, ln, r, 4)
    BY DEF AtLevel, Grows
  <2>2. PhysIn(n, r, a, b, c, d) = PhysIn(m, r, a, b, c, d)
    BY DEF Grows, SamePhys
  <2>3. PhysIn(o, r, a, b, c, d) = PhysIn(n, r, a, b, c, d)
    BY <2>1 DEF Grows, SamePhys
  <2>. QED  BY <2>2, <2>3
<1>2. \A x \in DOMAIN m, i \in Index :
         lv[x] > 1 /\ m[x][i] # ABSENT => o[x][i] = m[x][i]
  <2>. SUFFICES ASSUME NEW x \in DOMAIN m, NEW i \in Index, lv[x] > 1, m[x][i] # ABSENT
                PROVE  o[x][i] = m[x][i]
    OBVIOUS
  <2>1. n[x][i] = m[x][i] /\ x \in DOMAIN n /\ ln[x] = lv[x]
    BY DEF Grows
  <2>. QED  BY <2>1 DEF Grows
<1>3. /\ Forest(o, lo)
      /\ DOMAIN m \subseteq DOMAIN o /\ \A x \in DOMAIN m : lo[x] = lv[x]
      /\ h \subseteq f /\ DOMAIN o \subseteq DOMAIN m \cup (f \ h)
  BY DEF Grows
<1>. QED
  BY <1>1, <1>2, <1>3 DEF Grows

Walk(m, f, t) == [mem |-> m, free |-> f, at |-> t]

\* One step of the walk: the table at an entry, created if there is none; 0 when
\* there is no page for it.
LEMMA StepGrows ==
    ASSUME NEW m, NEW lv, NEW f, Forest(m, lv), PoolOf(m, f),
           NEW level \in 2 .. 4, NEW t \in DOMAIN m, lv[t] = level, NEW i \in Index
    PROVE  \E n, ln, g, u :
              /\ get_or_create_table(Walk(m, f, t), i) = Walk(n, g, u)
              /\ Grows(m, lv, f, n, ln, g)
              /\ u # 0 => u \in DOMAIN n /\ ln[u] = level - 1 /\ n[t][i] = u
<1>. DEFINE page == pmm_alloc_page(f)
            w == Walk(m, f, t)
<1>0. t # 0 /\ 0 \notin DOMAIN m
  BY DEF Forest, IsTables
<1>w. w.mem = m /\ w.free = f /\ w.at = t
  BY DEF Walk
<1>1. CASE m[t][i] # ABSENT
  <2>1. get_or_create_table(w, i) = [w EXCEPT !.at = m[t][i]]
    BY <1>0, <1>1, <1>w DEF get_or_create_table
  <2>2. get_or_create_table(w, i) = Walk(m, f, m[t][i])
    BY <2>1 DEF Walk
  <2>3. m[t][i] \in DOMAIN m /\ lv[m[t][i]] = level - 1
    BY <1>1 DEF Forest, Leveled
  <2>. QED  BY <2>2, <2>3, GrowsRefl
<1>2. CASE m[t][i] = ABSENT /\ page = 0
  <2>1. get_or_create_table(w, i) = [w EXCEPT !.at = 0]
    BY <1>0, <1>2, <1>w DEF get_or_create_table
  <2>2. get_or_create_table(w, i) = Walk(m, f, 0)
    BY <2>1 DEF Walk
  <2>. QED  BY <2>2, GrowsRefl
<1>3. CASE m[t][i] = ABSENT /\ page # 0
  <2>. DEFINE n == Linked(m, t, i, page)
              ln == With(lv, page, lv[t] - 1)
              g == f \ {page}
  <2>1. get_or_create_table(w, i) = Walk(n, g, page)
    BY <1>0, <1>3, <1>w DEF get_or_create_table, Walk, Linked
  <2>2. page \in f /\ page \in Nat \ {0} /\ page \notin DOMAIN m
    BY <1>3, AllocFree DEF PoolOf
  <2>. HIDE DEF page
  <2>3. CanLink(m, lv, t, i, page)
    BY <1>3, <2>2 DEF CanLink
  <2>4. IsLinked(n, m, t, i, page) /\ Forest(n, ln)
    BY <2>3, LinkedEntries, LinkKeepsForest
  <2>5. SamePhys(m, lv, n)
    BY <2>3, LinkKeepsPhys DEF SamePhys
  <2>6. ln[page] = level - 1 /\ \A x \in DOMAIN m : ln[x] = lv[x]
    BY <2>2 DEF With, Forest, IsTables
  <2>. HIDE DEF n, ln
  <2>7. n[t][i] = page /\ page \in DOMAIN n
    BY <2>4 DEF IsLinked
  <2>8. Grows(m, lv, f, n, ln, g)
    <3>1. /\ DOMAIN m \subseteq DOMAIN n /\ g \subseteq f
          /\ DOMAIN n \subseteq DOMAIN m \cup (f \ g)
      BY <2>2, <2>4 DEF IsLinked
    <3>2. \A x \in DOMAIN m, j \in Index :
             lv[x] > 1 /\ m[x][j] # ABSENT => n[x][j] = m[x][j]
      BY <1>3, <2>4 DEF IsLinked
    <3>. QED  BY <2>4, <2>5, <2>6, <3>1, <3>2 DEF Grows
  <2>. HIDE DEF g
  <2>. QED  BY <2>1, <2>6, <2>7, <2>8, Zenon
<1>. QED
  BY <1>1, <1>2, <1>3

LEMMA StepStays ==
    ASSUME NEW m, NEW f, NEW i
    PROVE  get_or_create_table(Walk(m, f, 0), i) = Walk(m, f, 0)
BY DEF get_or_create_table, Walk

\* The whole walk: it ends at the lowest-level table of the address.
LEMMA WalkGrows ==
    ASSUME NEW lv, Forest(mem, lv), PoolOf(mem, free),
           NEW root \in DOMAIN mem, lv[root] = 4, NEW virt \in Nat
    PROVE  \E n, ln, g, u :
              /\ BuildWalk(root, virt) = Walk(n, g, u)
              /\ Grows(mem, lv, free, n, ln, g)
              /\ u # 0 => /\ u \in DOMAIN n /\ ln[u] = 1
                          /\ TableIn(n, root, PML4_INDEX(virt), PDPT_INDEX(virt),
                                     PD_INDEX(virt)) = u
<1>. DEFINE a == PML4_INDEX(virt)
            b == PDPT_INDEX(virt)
            c == PD_INDEX(virt)
<1>0. a \in Index /\ b \in Index /\ c \in Index
  BY DigitsAreIndices
<1>b. BuildWalk(root, virt)
        = get_or_create_table(get_or_create_table(
             get_or_create_table(Walk(mem, free, root), a), b), c)
  BY DEF BuildWalk, Walk
<1>. HIDE DEF a, b, c
<1>1. PICK n1, l1, g1, u1 :
         /\ get_or_create_table(Walk(mem, free, root), a) = Walk(n1, g1, u1)
         /\ Grows(mem, lv, free, n1, l1, g1)
         /\ u1 # 0 => u1 \in DOMAIN n1 /\ l1[u1] = 3 /\ n1[root][a] = u1
  <2>1. 4 \in 2 .. 4 /\ 4 - 1 = 3  OBVIOUS
  <2>. QED  BY <1>0, <2>1, StepGrows
<1>2. Forest(n1, l1) /\ PoolOf(n1, g1)
  BY <1>1, GrowsPool
<1>3. CASE u1 = 0
  <2>1. BuildWalk(root, virt) = Walk(n1, g1, 0)
    BY <1>b, <1>1, <1>3, StepStays
  <2>. QED  BY <1>1, <2>1
<1>4. CASE u1 # 0
  <2>1. PICK n2, l2, g2, u2 :
           /\ get_or_create_table(Walk(n1, g1, u1), b) = Walk(n2, g2, u2)
           /\ Grows(n1, l1, g1, n2, l2, g2)
           /\ u2 # 0 => u2 \in DOMAIN n2 /\ l2[u2] = 2 /\ n2[u1][b] = u2
    <3>1. 3 \in 2 .. 4 /\ 3 - 1 = 2  OBVIOUS
    <3>. QED  BY <1>0, <1>1, <1>2, <1>4, <3>1, StepGrows
  <2>2. Forest(n2, l2) /\ PoolOf(n2, g2) /\ Grows(mem, lv, free, n2, l2, g2)
    BY <1>1, <1>2, <2>1, GrowsPool, GrowsTrans
  <2>3. CASE u2 = 0
    <3>1. BuildWalk(root, virt) = Walk(n2, g2, 0)
      BY <1>b, <1>1, <2>1, <2>3, StepStays
    <3>. QED  BY <2>2, <3>1
  <2>4. CASE u2 # 0
    <3>1. PICK n3, l3, g3, u3 :
             /\ get_or_create_table(Walk(n2, g2, u2), c) = Walk(n3, g3, u3)
             /\ Grows(n2, l2, g2, n3, l3, g3)
             /\ u3 # 0 => u3 \in DOMAIN n3 /\ l3[u3] = 1 /\ n3[u2][c] = u3
      <4>1. 2 \in 2 .. 4 /\ 2 - 1 = 1  OBVIOUS
      <4>. QED  BY <1>0, <2>1, <2>2, <2>4, <4>1, StepGrows
    <3>2. Grows(mem, lv, free, n3, l3, g3)
      BY <2>2, <3>1, GrowsTrans
    <3>3. BuildWalk(root, virt) = Walk(n3, g3, u3)
      BY <1>b, <1>1, <2>1, <3>1
    <3>4. ASSUME u3 # 0 PROVE TableIn(n3, root, a, b, c) = u3
      <4>1. u1 # ABSENT /\ u2 # ABSENT /\ root # ABSENT
        BY <1>1, <1>2, <1>4, <2>1, <2>2, <2>4, NoAbsentTable DEF Forest
      <4>2. n2[root][a] = u1 /\ n3[root][a] = u1
        <5>1. root \in DOMAIN n1 /\ l1[root] = 4 /\ n1[root][a] = u1
          BY <1>1, <1>4 DEF Grows
        <5>2. n2[root][a] = u1 /\ root \in DOMAIN n2 /\ l2[root] = 4
          BY <1>0, <2>1, <4>1, <5>1 DEF Grows
        <5>. QED  BY <1>0, <3>1, <4>1, <5>2 DEF Grows
      <4>3. n3[u1][b] = u2
        <5>1. u1 \in DOMAIN n2 /\ l2[u1] = 3 /\ n2[u1][b] = u2
          BY <1>1, <1>4, <2>1, <2>4 DEF Grows
        <5>. QED  BY <1>0, <3>1, <4>1, <5>1 DEF Grows
      <4>4. n3[u2][c] = u3
        BY <3>1, <3>4
      <4>. QED  BY <4>1, <4>2, <4>3, <4>4 DEF TableIn, EntryIn
    <3>. QED  BY <3>1, <3>2, <3>3, <3>4 DEF a, b, c
  <2>. QED  BY <2>3, <2>4
<1>. QED
  BY <1>3, <1>4
----------------------------------------------------------------------------
\* vmm_map and vmm_unmap change one translation.

PhysAt(m, r, v) ==
    PhysIn(m, r, PML4_INDEX(v), PDPT_INDEX(v), PD_INDEX(v), PT_INDEX(v))
TableAt(m, r, v) == TableIn(m, r, PML4_INDEX(v), PDPT_INDEX(v), PD_INDEX(v))

LEMMA PhysIsPhysAt ==
    \A r, v : vmm_get_phys(r, v) = PhysAt(mem, r, v) /\ FindTable(r, v) = TableAt(mem, r, v)
BY DEF vmm_get_phys, PhysAt, PhysIn, TableAt, TableIn, FindTable, Entry, EntryIn

Extends(m, lv, f, n, ln, g) ==
    /\ Forest(n, ln)
    /\ DOMAIN m \subseteq DOMAIN n /\ \A x \in DOMAIN m : ln[x] = lv[x]
    /\ g \subseteq f /\ DOMAIN n \subseteq DOMAIN m \cup (f \ g)

\* Whatever the root, at most the translation of virt changes, to value, and
\* only if the call succeeds.
OneChange(m, lv, n, virt, value, ok) ==
    \A r \in DOMAIN m : lv[r] = 4 =>
       \A v \in Nat :
          \/ PhysAt(n, r, v) = PhysAt(m, r, v)
          \/ ok /\ Digits(v) = Digits(virt) /\ PhysAt(n, r, v) = value

\* The change a successful call makes, and that it is there in its own space.
Translates(m, lv, n, root, virt, value) ==
    /\ OneChange(m, lv, n, virt, value, TRUE)
    /\ PhysAt(n, root, virt) = value

LEMMA PutChange ==
    ASSUME NEW m, NEW lv, Forest(m, lv), NEW root \in DOMAIN m, lv[root] = 4,
           NEW virt \in Nat, NEW value \in Values, NEW t \in DOMAIN m, lv[t] = 1,
           TableAt(m, root, virt) = t,
           NEW n, n = Put(m, t, PT_INDEX(virt), value)
    PROVE  Forest(n, lv) /\ Translates(m, lv, n, root, virt, value)
<1>1. PT_INDEX(virt) \in Index /\ CanPut(m, lv, t, PT_INDEX(virt), value)
  BY DigitsAreIndices DEF CanPut
<1>2. Forest(n, lv)
  BY <1>1, PutKeepsForest
<1>3. ASSUME NEW r \in DOMAIN m, lv[r] = 4, NEW v \in Nat
      PROVE  PhysAt(n, r, v) = IF TableAt(m, r, v) = t /\ PT_INDEX(v) = PT_INDEX(virt)
                               THEN value ELSE PhysAt(m, r, v)
  <2>1. /\ PML4_INDEX(v) \in Index /\ PDPT_INDEX(v) \in Index
        /\ PD_INDEX(v) \in Index /\ PT_INDEX(v) \in Index
    BY DigitsAreIndices
  <2>2. AtLevel(m, lv, r, 4)
    BY <1>3 DEF AtLevel
  <2>. QED  BY <1>1, <2>1, <2>2, PutPhys DEF PhysAt, TableAt
<1>4. ASSUME NEW r \in DOMAIN m, lv[r] = 4, NEW v \in Nat,
             TableAt(m, r, v) = t, PT_INDEX(v) = PT_INDEX(virt)
      PROVE  Digits(v) = Digits(virt)
  <2>1. /\ PML4_INDEX(v) \in Index /\ PDPT_INDEX(v) \in Index /\ PD_INDEX(v) \in Index
        /\ PML4_INDEX(virt) \in Index /\ PDPT_INDEX(virt) \in Index
        /\ PD_INDEX(virt) \in Index
    BY DigitsAreIndices
  <2>2. AtLevel(m, lv, r, 4) /\ AtLevel(m, lv, root, 4) /\ t # ABSENT
    BY <1>4, NoAbsentTable DEF AtLevel, Forest
  <2>3. TableIn(m, r, PML4_INDEX(v), PDPT_INDEX(v), PD_INDEX(v))
          = TableIn(m, root, PML4_INDEX(virt), PDPT_INDEX(virt), PD_INDEX(virt))
        /\ TableIn(m, r, PML4_INDEX(v), PDPT_INDEX(v), PD_INDEX(v)) # ABSENT
    BY <1>4, <2>2 DEF TableAt
  <2>4. /\ PML4_INDEX(v) = PML4_INDEX(virt) /\ PDPT_INDEX(v) = PDPT_INDEX(virt)
        /\ PD_INDEX(v) = PD_INDEX(virt)
    BY <2>1, <2>2, <2>3, OnePath
  <2>. QED  BY <1>4, <2>4 DEF Digits
<1>5. OneChange(m, lv, n, virt, value, TRUE)
  BY <1>3, <1>4 DEF OneChange
<1>6. PhysAt(n, root, virt) = value
  BY <1>3
<1>. QED
  BY <1>2, <1>5, <1>6 DEF Translates

LEMMA SamePhysAt ==
    ASSUME NEW m, NEW lv, NEW n, SamePhys(m, lv, n), NEW r \in DOMAIN m, lv[r] = 4,
           NEW v \in Nat
    PROVE  PhysAt(n, r, v) = PhysAt(m, r, v)
BY DigitsAreIndices DEF SamePhys, PhysAt, AtLevel

\* What vmm_map does, in every address space.
LEMMA MapEffect ==
    ASSUME NEW lv, Forest(mem, lv), PoolOf(mem, free),
           NEW root \in DOMAIN mem, lv[root] = 4, NEW virt \in Nat, NEW phys \in Nat,
           vmm_map(root, virt, phys)
    PROVE  \E ln : \E ok \in BOOLEAN :
              /\ last' = [op |-> "map", root |-> root, virt |-> virt, phys |-> phys,
                          ok |-> ok]
              /\ Extends(mem, lv, free, mem', ln, free')
              /\ OneChange(mem, lv, mem', virt, phys, ok)
              /\ ok => PhysAt(mem', root, virt) = phys
              /\ tlb' = IF ok THEN invlpg(virt) ELSE tlb
<1>1. PICK n, ln, g, u :
         /\ BuildWalk(root, virt) = Walk(n, g, u)
         /\ Grows(mem, lv, free, n, ln, g)
         /\ u # 0 => /\ u \in DOMAIN n /\ ln[u] = 1
                     /\ TableIn(n, root, PML4_INDEX(virt), PDPT_INDEX(virt),
                                PD_INDEX(virt)) = u
  BY WalkGrows
<1>2. /\ free' = g
      /\ last' = [op |-> "map", root |-> root, virt |-> virt, phys |-> phys, ok |-> u # 0]
      /\ IF u = 0 THEN mem' = n /\ tlb' = tlb
         ELSE mem' = Put(n, u, PT_INDEX(virt), phys) /\ tlb' = invlpg(virt)
  BY <1>1 DEF vmm_map, Walk, Put
<1>3. Forest(n, ln) /\ root \in DOMAIN n /\ ln[root] = 4 /\ SamePhys(mem, lv, n)
  BY <1>1 DEF Grows
<1>4. \A r \in DOMAIN mem : lv[r] = 4 =>
         /\ r \in DOMAIN n /\ ln[r] = 4
         /\ \A v \in Nat : PhysAt(n, r, v) = PhysAt(mem, r, v)
  BY <1>1, SamePhysAt DEF Grows
<1>5. CASE u = 0
  <2>1. Extends(mem, lv, free, mem', ln, free')
    BY <1>1, <1>2, <1>5 DEF Grows, Extends
  <2>2. OneChange(mem, lv, mem', virt, phys, FALSE)
    BY <1>2, <1>4, <1>5 DEF OneChange
  <2>. QED  BY <1>2, <1>5, <2>1, <2>2
<1>6. CASE u # 0
  <2>1. phys \in Values /\ TableAt(n, root, virt) = u
    BY <1>1, <1>6 DEF Values, TableAt
  <2>2. /\ Forest(mem', ln) /\ DOMAIN mem' = DOMAIN n
        /\ OneChange(n, ln, mem', virt, phys, TRUE)
        /\ PhysAt(mem', root, virt) = phys
    <3>1. mem' = Put(n, u, PT_INDEX(virt), phys)  BY <1>2, <1>6
    <3>2. u \in DOMAIN n /\ ln[u] = 1  BY <1>1, <1>6
    <3>3. Forest(mem', ln) /\ Translates(n, ln, mem', root, virt, phys)
      BY <1>3, <2>1, <3>1, <3>2, PutChange
    <3>4. DOMAIN mem' = DOMAIN n
      BY <3>1 DEF Put
    <3>. QED  BY <3>3, <3>4 DEF Translates
  <2>3. Extends(mem, lv, free, mem', ln, free')
    BY <1>1, <1>2, <2>2 DEF Grows, Extends
  <2>4. OneChange(mem, lv, mem', virt, phys, TRUE)
    BY <1>4, <2>2 DEF OneChange
  <2>. QED  BY <1>2, <1>6, <2>2, <2>3, <2>4
<1>. QED
  BY <1>5, <1>6

\* What vmm_unmap does, in every address space.
LEMMA UnmapEffect ==
    ASSUME NEW lv, Forest(mem, lv),
           NEW root \in DOMAIN mem, lv[root] = 4, NEW virt \in Nat,
           vmm_unmap(root, virt)
    PROVE  \E ok \in BOOLEAN :
              /\ last' = [op |-> "unmap", root |-> root, virt |-> virt, phys |-> 0,
                          ok |-> ok]
              /\ Extends(mem, lv, free, mem', lv, free')
              /\ OneChange(mem, lv, mem', virt, ABSENT, ok)
              /\ tlb' = IF ok THEN invlpg(virt) ELSE tlb
<1>. DEFINE t == TableAt(mem, root, virt)
<1>1. FindTable(root, virt) = t
  BY PhysIsPhysAt
<1>2. CASE t = ABSENT
  <2>1. /\ last' = [op |-> "unmap", root |-> root, virt |-> virt, phys |-> 0, ok |-> FALSE]
        /\ mem' = mem /\ tlb' = tlb /\ free' = free
    BY <1>1, <1>2 DEF vmm_unmap
  <2>2. OneChange(mem, lv, mem', virt, ABSENT, FALSE) /\ Extends(mem, lv, free, mem', lv, free')
    BY <2>1 DEF OneChange, Extends
  <2>. QED  BY <2>1, <2>2
<1>3. CASE t # ABSENT
  <2>1. /\ last' = [op |-> "unmap", root |-> root, virt |-> virt, phys |-> 0, ok |-> TRUE]
        /\ mem' = Put(mem, t, PT_INDEX(virt), ABSENT)
        /\ tlb' = invlpg(virt) /\ free' = free
    BY <1>1, <1>3 DEF vmm_unmap, Put
  <2>2. t \in DOMAIN mem /\ lv[t] = 1
    <3>1. AtLevel(mem, lv, root, 4)  BY DEF AtLevel
    <3>2. AtLevel(mem, lv, t, 1)
      BY <3>1, DigitsAreIndices, TableLevels DEF TableAt
    <3>. QED  BY <1>3, <3>2 DEF AtLevel
  <2>. HIDE DEF t
  <2>3. ABSENT \in Values /\ TableAt(mem, root, virt) = t
    BY DEF Values, t
  <2>4. /\ Forest(mem', lv) /\ DOMAIN mem' = DOMAIN mem
        /\ OneChange(mem, lv, mem', virt, ABSENT, TRUE)
    <3>1. Forest(mem', lv) /\ Translates(mem, lv, mem', root, virt, ABSENT)
      BY <2>1, <2>2, <2>3, PutChange
    <3>2. DOMAIN mem' = DOMAIN mem
      BY <2>1 DEF Put
    <3>. QED  BY <3>1, <3>2 DEF Translates
  <2>5. Extends(mem, lv, free, mem', lv, free')
    BY <2>1, <2>4 DEF Extends
  <2>. QED  BY <2>1, <2>4, <2>5
<1>. QED
  BY <1>2, <1>3

\* What vmm_create_address_space does to the tables.
LEMMA CreateEffect ==
    ASSUME NEW lv, Forest(mem, lv), NEW root \in DOMAIN mem, lv[root] = 4,
           NEW page \in Nat \ {0}, page \notin DOMAIN mem, page \in free,
           mem' = With(mem, page, mem[root]), free' = free \ {page}
    PROVE  \E ln :
              /\ Extends(mem, lv, free, mem', ln, free')
              /\ page \in DOMAIN mem' /\ ln[page] = 4
              /\ \A v \in Nat : PhysAt(mem', page, v) = PhysAt(mem, root, v)
              /\ \A r \in DOMAIN mem : lv[r] = 4 =>
                    \A v \in Nat : PhysAt(mem', r, v) = PhysAt(mem, r, v)
<1>. DEFINE ln == With(lv, page, 4)
<1>1. CanCopy(mem, lv, root, page)
  BY DEF CanCopy
<1>2. Forest(mem', ln)
  BY <1>1, CopyKeepsForest
<1>3. DOMAIN mem' = DOMAIN mem \cup {page}
  BY DEF With
<1>4. ln[page] = 4 /\ \A x \in DOMAIN mem : ln[x] = lv[x]
  BY DEF With, Forest, IsTables
<1>. HIDE DEF ln
<1>5. Extends(mem, lv, free, mem', ln, free')
  BY <1>2, <1>3, <1>4 DEF Extends
<1>6. ASSUME NEW r \in DOMAIN mem, lv[r] = 4, NEW v \in Nat
      PROVE  /\ PhysAt(mem', r, v) = PhysAt(mem, r, v)
             /\ PhysAt(mem', page, v) = PhysAt(mem, root, v)
  BY <1>1, <1>6, DigitsAreIndices, CopyPhys DEF PhysAt
<1>. QED
  BY <1>3, <1>4, <1>5, <1>6
----------------------------------------------------------------------------
\* The mappings of vmm_init as a set.

PagesOf(s) == {s[i] : i \in DOMAIN s}
Promised(l) ==
    {<<p, p>> : p \in PagesOf(l.kernel) \cup PagesOf(l.usable) \cup PagesOf(l.framebuffer)}
      \cup {<<HigherHalf(p), p>> :
               p \in PagesOf(l.usable) \cup PagesOf(l.kernel) \cup PagesOf(l.heap)}

LEMMA SpaceSize == VirtPages \in Nat \ {0}
<1>1. TABLE_ENTRIES \in Nat \ {0}  BY Entries
<1>. DEFINE T == TABLE_ENTRIES
<1>2. T * T \in Nat \ {0}  BY <1>1
<1>3. T * T * T \in Nat \ {0}  BY <1>1, <1>2
<1>4. T * T * T * T \in Nat \ {0}  BY <1>1, <1>3
<1>. QED  BY <1>4 DEF VirtPages

LEMMA HigherHalfInSpace ==
    ASSUME NEW p \in Nat
    PROVE  HigherHalf(p) \in 0 .. (VirtPages - 1)
<1>1. KERNEL_VIRT_BASE + p \in Nat  BY SpaceAssumption, SpaceSize
<1>. QED  BY <1>1, SpaceSize, DivMod DEF HigherHalf

LEMMA LayoutPages ==
    ASSUME NEW l \in Layouts
    PROVE  /\ l.kernel \in Seq(Nat) /\ l.usable \in Seq(Nat)
           /\ l.framebuffer \in Seq(Nat) /\ l.heap \in Seq(Nat)
           /\ PagesOf(l.kernel) \subseteq Nat /\ PagesOf(l.usable) \subseteq Nat
           /\ PagesOf(l.framebuffer) \subseteq Nat /\ PagesOf(l.heap) \subseteq Nat
           /\ l.free \subseteq PagesOf(l.usable) \ {0}
<1>1. /\ l.kernel \in Seq(Nat) /\ l.usable \in Seq(Nat)
      /\ l.framebuffer \in Seq(Nat) /\ l.heap \in Seq(Nat)
      /\ l.free \subseteq PagesOf(l.usable) \ {0}
  BY LayoutsAssumption DEF IsLayout, PagesOf
<1>2. ASSUME NEW s \in Seq(Nat) PROVE PagesOf(s) \subseteq Nat
  BY DEF PagesOf
<1>. QED  BY <1>1, <1>2

LEMMA PromisedPages ==
    ASSUME NEW l \in Layouts, NEW pr \in Promised(l)
    PROVE  pr[1] \in Nat /\ pr[2] \in Nat /\ pr = <<pr[1], pr[2]>>
BY LayoutPages, HigherHalfInSpace DEF Promised

\* A list of mappings holds a set of them.
Lists(s, S) == s \in Seq(S) /\ \A x \in S : \E j \in DOMAIN s : s[j] = x

LEMMA ListsConcat ==
    ASSUME NEW s, NEW S, NEW t, NEW T, Lists(s, S), Lists(t, T)
    PROVE  Lists(s \o t, S \cup T)
<1>1. s \in Seq(S \cup T) /\ t \in Seq(S \cup T)
  BY DEF Lists
<1>2. s \o t \in Seq(S \cup T)
  BY <1>1
<1>3. ASSUME NEW x \in S \cup T PROVE \E j \in DOMAIN (s \o t) : (s \o t)[j] = x
  <2>1. CASE x \in S
    <3>1. PICK j \in DOMAIN s : s[j] = x  BY <2>1 DEF Lists
    <3>2. j \in DOMAIN (s \o t) /\ (s \o t)[j] = s[j]  BY <1>1, <3>1
    <3>. QED  BY <3>1, <3>2
  <2>2. CASE x \in T
    <3>1. PICK j \in DOMAIN t : t[j] = x  BY <2>2 DEF Lists
    <3>2. Len(s) + j \in DOMAIN (s \o t) /\ (s \o t)[Len(s) + j] = t[j]  BY <1>1, <3>1
    <3>. QED  BY <3>1, <3>2
  <2>. QED  BY <2>1, <2>2
<1>. QED  BY <1>2, <1>3 DEF Lists

LEMMA InitMappingsListed ==
    ASSUME NEW l \in Layouts
    PROVE  Lists(InitMappings(l), Promised(l))
<1>. DEFINE Low(s) == {<<p, p>> : p \in PagesOf(s)}
            High(s) == {<<HigherHalf(p), p>> : p \in PagesOf(s)}
<1>1. ASSUME NEW s \in Seq(Nat) PROVE Lists(Identity(s), Low(s))
  <2>1. Identity(s) \in Seq(Low(s)) /\ DOMAIN Identity(s) = DOMAIN s
    BY DEF Identity, PagesOf
  <2>2. \A j \in DOMAIN s : Identity(s)[j] = <<s[j], s[j]>>
    BY DEF Identity
  <2>. QED  BY <2>1, <2>2 DEF Lists, PagesOf
<1>2. ASSUME NEW s \in Seq(Nat) PROVE Lists(map_higher_half(s), High(s))
  <2>1. map_higher_half(s) \in Seq(High(s)) /\ DOMAIN map_higher_half(s) = DOMAIN s
    BY DEF map_higher_half, PagesOf
  <2>2. \A j \in DOMAIN s : map_higher_half(s)[j] = <<HigherHalf(s[j]), s[j]>>
    BY DEF map_higher_half
  <2>. QED  BY <2>1, <2>2 DEF Lists, PagesOf
<1>3. ASSUME NEW s \in Seq(Nat) PROVE Lists(BothHalves(s), Low(s) \cup High(s))
  <2>. DEFINE b == BothHalves(s)
  <2>1. DOMAIN b = 1 .. (2 * Len(s))
    BY DEF BothHalves
  <2>2. ASSUME NEW i \in 1 .. (2 * Len(s))
        PROVE  /\ (i + 1) \div 2 \in DOMAIN s
               /\ b[i] = IF i % 2 = 1 THEN <<s[(i + 1) \div 2], s[(i + 1) \div 2]>>
                         ELSE <<HigherHalf(s[(i + 1) \div 2]), s[(i + 1) \div 2]>>
    BY DEF BothHalves
  <2>3. b \in [1 .. (2 * Len(s)) -> Low(s) \cup High(s)]
    <3>1. b = [i \in 1 .. (2 * Len(s)) |-> b[i]]
      BY DEF BothHalves
    <3>2. \A i \in 1 .. (2 * Len(s)) : b[i] \in Low(s) \cup High(s)
      <4>. SUFFICES ASSUME NEW i \in 1 .. (2 * Len(s)) PROVE b[i] \in Low(s) \cup High(s)
        OBVIOUS
      <4>1. s[(i + 1) \div 2] \in PagesOf(s)
        BY <2>2 DEF PagesOf
      <4>. HIDE DEF b
      <4>. QED  BY <2>2, <4>1
    <3>. HIDE DEF b, Low, High
    <3>. QED  BY <3>1, <3>2
  <2>4. b \in Seq(Low(s) \cup High(s))
    <3>1. 2 * Len(s) \in Nat  OBVIOUS
    <3>. HIDE DEF b, Low, High
    <3>. QED  BY <2>3, <3>1
  <2>5. ASSUME NEW j \in DOMAIN s
        PROVE  /\ 2 * j - 1 \in DOMAIN b /\ b[2 * j - 1] = <<s[j], s[j]>>
               /\ 2 * j \in DOMAIN b /\ b[2 * j] = <<HigherHalf(s[j]), s[j]>>
    <3>1. /\ 2 * j - 1 \in 1 .. (2 * Len(s)) /\ 2 * j \in 1 .. (2 * Len(s))
          /\ (2 * j - 1 + 1) \div 2 = j /\ (2 * j + 1) \div 2 = j
          /\ (2 * j - 1) % 2 = 1 /\ (2 * j) % 2 = 0
      <4>1. DOMAIN s = 1 .. Len(s) /\ Len(s) \in Nat  OBVIOUS
      <4>2. j \in Nat /\ 1 <= j /\ j <= Len(s)  BY <4>1
      <4>. QED  BY <4>1, <4>2
    <3>. HIDE DEF b
    <3>2. b[2 * j - 1] = IF (2 * j - 1) % 2 = 1
                         THEN <<s[(2 * j - 1 + 1) \div 2], s[(2 * j - 1 + 1) \div 2]>>
                         ELSE <<HigherHalf(s[(2 * j - 1 + 1) \div 2]), s[(2 * j - 1 + 1) \div 2]>>
      BY <2>2, <3>1
    <3>3. b[2 * j] = IF (2 * j) % 2 = 1
                     THEN <<s[(2 * j + 1) \div 2], s[(2 * j + 1) \div 2]>>
                     ELSE <<HigherHalf(s[(2 * j + 1) \div 2]), s[(2 * j + 1) \div 2]>>
      BY <2>2, <3>1
    <3>4. b[2 * j - 1] = <<s[j], s[j]>>
      BY <3>1, <3>2, Zenon
    <3>5. b[2 * j] = <<HigherHalf(s[j]), s[j]>>
      <4>1. (2 * j) % 2 # 1  BY <3>1
      <4>. QED  BY <3>1, <3>3, <4>1, Zenon
    <3>. QED  BY <2>1, <3>1, <3>4, <3>5
  <2>. HIDE DEF b
  <2>6. \A x \in Low(s) \cup High(s) : \E j \in DOMAIN b : b[j] = x
    BY <2>5 DEF PagesOf
  <2>. QED  BY <2>4, <2>6 DEF Lists, b
<1>4. /\ l.kernel \in Seq(Nat) /\ l.usable \in Seq(Nat)
      /\ l.framebuffer \in Seq(Nat) /\ l.heap \in Seq(Nat)
  BY LayoutPages
<1>5. Promised(l) = (((Low(l.kernel) \cup (Low(l.usable) \cup High(l.usable)))
                       \cup Low(l.framebuffer)) \cup High(l.kernel)) \cup High(l.heap)
  BY DEF Promised
<1>. HIDE DEF Low, High
<1>6. Lists(Identity(l.kernel) \o BothHalves(l.usable),
            Low(l.kernel) \cup (Low(l.usable) \cup High(l.usable)))
  <2>1. Lists(Identity(l.kernel), Low(l.kernel))
        /\ Lists(BothHalves(l.usable), Low(l.usable) \cup High(l.usable))
    BY <1>1, <1>3, <1>4
  <2>. QED  BY <2>1, ListsConcat
<1>7. Lists((Identity(l.kernel) \o BothHalves(l.usable)) \o Identity(l.framebuffer),
            (Low(l.kernel) \cup (Low(l.usable) \cup High(l.usable))) \cup Low(l.framebuffer))
  BY <1>1, <1>4, <1>6, ListsConcat
<1>8. Lists(((Identity(l.kernel) \o BothHalves(l.usable)) \o Identity(l.framebuffer))
              \o map_higher_half(l.kernel),
            ((Low(l.kernel) \cup (Low(l.usable) \cup High(l.usable))) \cup Low(l.framebuffer))
              \cup High(l.kernel))
  BY <1>2, <1>4, <1>7, ListsConcat
<1>9. Lists((((Identity(l.kernel) \o BothHalves(l.usable)) \o Identity(l.framebuffer))
              \o map_higher_half(l.kernel)) \o map_higher_half(l.heap),
            (((Low(l.kernel) \cup (Low(l.usable) \cup High(l.usable))) \cup Low(l.framebuffer))
              \cup High(l.kernel)) \cup High(l.heap))
  BY <1>2, <1>4, <1>8, ListsConcat
<1>. QED
  BY <1>5, <1>9 DEF InitMappings
----------------------------------------------------------------------------
\* The invariant of the tables.

\* Where pages are: tables, free pages and pages of clients are RAM, and a
\* table is neither free nor a client's.
PagesInv ==
    /\ layout \in Layouts
    /\ (free \cup held \cup Tables) \subseteq Ram \ {0}
    /\ Tables \cap (free \cup held) = {} /\ free \cap held = {}

\* What is known at each stage of vmm_init and after it.
PhaseInv ==
    /\ pc \in {"start", "init", "run", "panic"}
    /\ pc = "start" => mem = <<>> /\ pml4 = <<>>
    /\ pc # "run" => cr3 = 0 /\ tlb = {}
    /\ pc = "init" => DOMAIN pml4 = {g_kernel_as}
    /\ pc = "run" => g_kernel_as \in DOMAIN pml4 /\ cr3 # 0
    /\ todo \in Seq(Promised(layout))

\* Every root in use is a table of level 4.
RootsInv(lv) ==
    /\ \A as \in DOMAIN pml4 : pml4[as] \in Tables /\ lv[pml4[as]] = 4
    /\ cr3 # 0 => cr3 \in Tables /\ lv[cr3] = 4

\* The cached translations are those of the running tables.
TlbInv == \A t \in tlb : t.virt \in 0 .. (VirtPages - 1) /\ PhysAt(mem, cr3, t.virt) = t.phys

TreeInv ==
    /\ PagesInv /\ PhaseInv /\ TlbInv
    /\ \E lv : Forest(mem, lv) /\ RootsInv(lv)

LEMMA RamIsNat ==
    ASSUME PagesInv
    PROVE  /\ layout \in Layouts /\ Ram = PagesOf(layout.usable) /\ Ram \subseteq Nat
           /\ free \subseteq Nat \ {0} /\ held \subseteq Nat \ {0}
           /\ PoolOf(mem, free)
BY LayoutPages DEF PagesInv, Ram, PagesOf, PoolOf, Tables

LEMMA InitTree == Init => TreeInv
<1>. SUFFICES ASSUME Init PROVE TreeInv  OBVIOUS
<1>1. layout \in Layouts /\ free = layout.free /\ held = {} /\ mem = <<>> /\ pml4 = <<>>
      /\ cr3 = 0 /\ tlb = {} /\ pc = "start" /\ todo = InitMappings(layout)
  BY DEF Init
<1>2. DOMAIN mem = {} /\ DOMAIN pml4 = {}
  BY <1>1
<1>3. free \subseteq Ram \ {0}
  BY <1>1, LayoutPages DEF Ram, PagesOf
<1>4. PagesInv
  BY <1>1, <1>2, <1>3 DEF PagesInv, Tables
<1>5. PhaseInv
  <2>1. todo \in Seq(Promised(layout))
    BY <1>1, InitMappingsListed DEF Lists
  <2>. QED  BY <1>1, <2>1 DEF PhaseInv
<1>6. Forest(mem, mem) /\ RootsInv(mem)
  BY <1>1, <1>2 DEF Forest, IsTables, Leveled, OneParent, RootsInv
<1>7. TlbInv
  BY <1>1 DEF TlbInv
<1>. QED
  BY <1>4, <1>5, <1>6, <1>7 DEF TreeInv

\* A call that changes one translation keeps the tables, and what is cached.
LEMMA ChangeKeepsTree ==
    ASSUME NEW lv, NEW ln, PagesInv, Forest(mem, lv), RootsInv(lv), TlbInv,
           Extends(mem, lv, free, mem', ln, free'),
           NEW virt \in Nat, NEW value, NEW ok \in BOOLEAN,
           OneChange(mem, lv, mem', virt, value, ok),
           tlb' = IF ok THEN invlpg(virt) ELSE tlb,
           tlb # {} => virt \in 0 .. (VirtPages - 1) /\ cr3 # 0,
           UNCHANGED <<layout, held, pml4, cr3>>
    PROVE  PagesInv' /\ Forest(mem', ln) /\ RootsInv(ln)' /\ TlbInv' /\ tlb' \subseteq tlb
<1>1. /\ Forest(mem', ln)
      /\ DOMAIN mem \subseteq DOMAIN mem' /\ \A x \in DOMAIN mem : ln[x] = lv[x]
      /\ free' \subseteq free /\ DOMAIN mem' \subseteq DOMAIN mem \cup (free \ free')
  BY DEF Extends
<1>2. PagesInv'
  <2>1. free' \cup held \cup DOMAIN mem' \subseteq free \cup held \cup DOMAIN mem
    BY <1>1
  <2>2. Ram' = Ram
    BY DEF Ram
  <2>. QED  BY <1>1, <2>1, <2>2 DEF PagesInv, Tables
<1>3. RootsInv(ln)'
  BY <1>1 DEF RootsInv, Tables
<1>4. tlb' \subseteq tlb
  BY DEF invlpg
<1>5. TlbInv'
  <2>. SUFFICES ASSUME NEW t \in tlb'
                PROVE  /\ t.virt \in 0 .. (VirtPages - 1)
                       /\ PhysAt(mem', cr3', t.virt) = t.phys
    BY DEF TlbInv
  <2>1. /\ t \in tlb /\ t.virt \in 0 .. (VirtPages - 1)
        /\ PhysAt(mem, cr3, t.virt) = t.phys /\ cr3' = cr3
    BY <1>4 DEF TlbInv
  <2>2. virt \in 0 .. (VirtPages - 1) /\ cr3 \in DOMAIN mem /\ lv[cr3] = 4
    BY <2>1 DEF RootsInv, Tables
  <2>3. ok => t.virt # virt
    BY DEF invlpg
  <2>4. ok => Digits(t.virt) # Digits(virt)
    BY <2>1, <2>2, <2>3, DigitsDetermine
  <2>5. t.virt \in Nat
    BY <2>1
  <2>. QED  BY <2>1, <2>2, <2>4, <2>5 DEF OneChange
<1>. QED
  BY <1>1, <1>2, <1>3, <1>4, <1>5

\* A step that leaves the tables alone keeps them.
LEMMA SameTables ==
    ASSUME NEW lv, Forest(mem, lv), RootsInv(lv), mem' = mem,
           pml4' = pml4 \/ \E as \in DOMAIN pml4 :
                              pml4' = [s \in DOMAIN pml4 \ {as} |-> pml4[s]],
           cr3' = cr3 \/ \E as \in DOMAIN pml4 : cr3' = pml4[as]
    PROVE  Forest(mem', lv) /\ RootsInv(lv)'
BY DEF RootsInv, Tables

\* The first root: an empty table.
LEMMA FreshRoot ==
    ASSUME NEW page \in Nat \ {0}
    PROVE  /\ Forest(With(<<>>, page, ZeroTable), With(<<>>, page, 4))
           /\ DOMAIN With(<<>>, page, ZeroTable) = {page} /\ With(<<>>, page, 4)[page] = 4
<1>. DEFINE n == With(<<>>, page, ZeroTable)
            ln == With(<<>>, page, 4)
<1>1. DOMAIN n = {page} /\ DOMAIN ln = {page} /\ n[page] = ZeroTable /\ ln[page] = 4
  BY DEF With
<1>. HIDE DEF n, ln
<1>2. ZeroTable \in [Index -> Values] /\ \A j \in Index : ZeroTable[j] = ABSENT
  BY DEF ZeroTable, Values
<1>3. Forest(n, ln)
  BY <1>1, <1>2 DEF Forest, IsTables, Leveled, OneParent
<1>. QED
  BY <1>1, <1>3 DEF n, ln

LEMMA NextTree == TreeInv /\ [Next]_vars => TreeInv'
<1>. SUFFICES ASSUME TreeInv, [Next]_vars PROVE TreeInv'  OBVIOUS
<1>0. PICK lv : Forest(mem, lv) /\ RootsInv(lv)
  BY DEF TreeInv
<1>i. PagesInv /\ PhaseInv /\ TlbInv
  BY DEF TreeInv
<1>p. /\ layout \in Layouts /\ Ram \subseteq Nat
      /\ free \subseteq Nat \ {0} /\ held \subseteq Nat \ {0} /\ PoolOf(mem, free)
  BY <1>i, RamIsNat
<1>c. ClientVirts \subseteq 0 .. (VirtPages - 1) /\ DevicePages \subseteq 0 .. (VirtPages - 1)
  BY SpaceAssumption
\* vmm_map with a root in use.
<1>m. ASSUME NEW as \in DOMAIN pml4, NEW virt \in Nat, NEW phys \in Nat,
             vmm_map(pml4[as], virt, phys),
             pc = "run" => virt \in 0 .. (VirtPages - 1),
             UNCHANGED <<layout, held, pml4, cr3>>, pc \in {"init", "run"}
      PROVE  PagesInv' /\ TlbInv' /\ (tlb = {} => tlb' = {})
             /\ \E ln : Forest(mem', ln) /\ RootsInv(ln)'
  <2>1. pml4[as] \in DOMAIN mem /\ lv[pml4[as]] = 4
    BY <1>0 DEF RootsInv, Tables
  <2>2. PICK ln : \E ok \in BOOLEAN :
           /\ last' = [op |-> "map", root |-> pml4[as], virt |-> virt, phys |-> phys,
                       ok |-> ok]
           /\ Extends(mem, lv, free, mem', ln, free')
           /\ OneChange(mem, lv, mem', virt, phys, ok)
           /\ ok => PhysAt(mem', pml4[as], virt) = phys
           /\ tlb' = IF ok THEN invlpg(virt) ELSE tlb
    BY <1>0, <1>p, <1>m, <2>1, MapEffect
  <2>3. tlb # {} => virt \in 0 .. (VirtPages - 1) /\ cr3 # 0
    BY <1>i, <1>m DEF PhaseInv
  <2>4. PagesInv' /\ Forest(mem', ln) /\ RootsInv(ln)' /\ TlbInv' /\ tlb' \subseteq tlb
    BY <1>0, <1>i, <1>m, <2>2, <2>3, ChangeKeepsTree
  <2>. QED  BY <2>4
<1>1. CASE AllocKernelPml4
  <2>0. PICK page : page = pmm_alloc_page(free)
    OBVIOUS
  <2>1. /\ pc = "start" /\ page # 0 /\ mem' = With(<<>>, page, ZeroTable)
        /\ free' = free \ {page} /\ pml4' = With(<<>>, g_kernel_as, page) /\ pc' = "init"
        /\ UNCHANGED <<layout, todo, held, cr3, tlb>>
    BY <1>1, <1>i, <2>0 DEF AllocKernelPml4, PhaseInv
  <2>2. page \in free
    BY <1>p, <2>0, <2>1, AllocFree
  <2>3. page \in Nat \ {0}
    BY <1>p, <2>2
  <2>4. /\ Forest(mem', With(<<>>, page, 4)) /\ DOMAIN mem' = {page}
        /\ With(<<>>, page, 4)[page] = 4
    BY <2>1, <2>3, FreshRoot
  <2>5. DOMAIN pml4' = {g_kernel_as} /\ pml4'[g_kernel_as] = page
    BY <2>1 DEF With
  <2>6. RootsInv(With(<<>>, page, 4))'
    BY <1>i, <2>1, <2>4, <2>5 DEF RootsInv, Tables, PhaseInv
  <2>7. PagesInv'
    BY <1>i, <2>1, <2>2, <2>4 DEF PagesInv, Tables, Ram
  <2>8. PhaseInv' /\ TlbInv'
    BY <1>i, <2>1, <2>5 DEF PhaseInv, TlbInv
  <2>. QED  BY <2>4, <2>6, <2>7, <2>8 DEF TreeInv
<1>2. CASE MapNext
  <2>1. /\ g_kernel_as \in DOMAIN pml4 /\ todo \in Seq(Promised(layout)) /\ todo # <<>>
        /\ cr3 = 0 /\ tlb = {} /\ pc = "init" /\ DOMAIN pml4 = {g_kernel_as}
        /\ vmm_map(pml4[g_kernel_as], Head(todo)[1], Head(todo)[2])
        /\ todo' = Tail(todo) /\ UNCHANGED <<layout, pc, held, pml4, cr3>>
    BY <1>2, <1>i DEF MapNext, PhaseInv
  <2>2. Head(todo) \in Promised(layout) /\ Tail(todo) \in Seq(Promised(layout))
    BY <2>1
  <2>3. Head(todo)[1] \in Nat /\ Head(todo)[2] \in Nat
    BY <1>p, <2>2, PromisedPages
  <2>4. PagesInv' /\ TlbInv' /\ tlb' = {} /\ \E ln : Forest(mem', ln) /\ RootsInv(ln)'
    BY <1>m, <2>1, <2>3
  <2>5. PhaseInv'
    BY <2>1, <2>2, <2>4 DEF PhaseInv
  <2>. QED  BY <2>4, <2>5 DEF TreeInv
<1>3. CASE SwitchToOwnTables
  <2>1. /\ pc = "init" /\ pc' = "run" /\ cr3' = pml4[g_kernel_as] /\ tlb' = {}
        /\ UNCHANGED <<layout, todo, mem, free, held, pml4>>
    BY <1>3 DEF SwitchToOwnTables
  <2>2. g_kernel_as \in DOMAIN pml4 /\ pml4[g_kernel_as] # 0
    BY <1>0, <1>i, <2>1 DEF PhaseInv, RootsInv, PagesInv, Tables
  <2>3. Forest(mem', lv) /\ RootsInv(lv)'
    BY <1>0, <2>1, <2>2, SameTables
  <2>4. PagesInv' /\ PhaseInv' /\ TlbInv'
    BY <1>i, <2>1, <2>2 DEF PagesInv, PhaseInv, TlbInv, Tables, Ram
  <2>. QED  BY <2>3, <2>4 DEF TreeInv
<1>4. CASE Panic
  <2>1. /\ pc # "run" /\ pc' = "panic"
        /\ UNCHANGED <<layout, todo, mem, free, held, pml4, cr3, tlb>>
    BY <1>4 DEF Panic
  <2>2. Forest(mem', lv) /\ RootsInv(lv)'
    BY <1>0, <2>1, SameTables
  <2>3. PagesInv' /\ PhaseInv' /\ TlbInv'
    BY <1>i, <2>1 DEF PagesInv, PhaseInv, TlbInv, Tables, Ram
  <2>. QED  BY <2>2, <2>3 DEF TreeInv
<1>5. CASE ClientAlloc
  <2>1. /\ free # {} /\ held' = {Lowest(free)} /\ free' = free \ held' /\ held = {}
        /\ UNCHANGED <<layout, pc, todo, mem, pml4, cr3, tlb>>
    BY <1>5 DEF ClientAlloc
  <2>2. Lowest(free) \in free
    BY <1>p, <2>1, LowestIsFree
  <2>3. Forest(mem', lv) /\ RootsInv(lv)'
    BY <1>0, <2>1, SameTables
  <2>4. PagesInv'
    BY <1>i, <2>1, <2>2 DEF PagesInv, Tables, Ram
  <2>5. PhaseInv' /\ TlbInv'
    BY <1>i, <2>1 DEF PhaseInv, TlbInv
  <2>. QED  BY <2>3, <2>4, <2>5 DEF TreeInv
<1>6. ASSUME NEW as \in 1 .. MaxSpaces, vmm_create_address_space(as) PROVE TreeInv'
  <2>. DEFINE page == pmm_alloc_page(free)
              root == pml4[g_kernel_as]
  <2>1. /\ pc = "run" /\ as \notin DOMAIN pml4 /\ page # 0
        /\ mem' = With(mem, page, mem[root]) /\ free' = free \ {page}
        /\ pml4' = With(pml4, as, page)
        /\ UNCHANGED <<layout, pc, todo, held, cr3, tlb>>
    BY <1>6 DEF vmm_create_address_space
  <2>2. page \in free
    BY <1>p, <2>1, AllocFree
  <2>3. root \in DOMAIN mem /\ lv[root] = 4 /\ cr3 \in DOMAIN mem /\ lv[cr3] = 4
    BY <1>0, <1>i, <2>1 DEF RootsInv, Tables, PhaseInv
  <2>. HIDE DEF page, root
  <2>4. page \in Nat \ {0} /\ page \notin DOMAIN mem
    BY <1>i, <1>p, <2>2 DEF PagesInv, Tables
  <2>5. PICK ln :
           /\ Extends(mem, lv, free, mem', ln, free')
           /\ page \in DOMAIN mem' /\ ln[page] = 4
           /\ \A v \in Nat : PhysAt(mem', page, v) = PhysAt(mem, root, v)
           /\ \A r \in DOMAIN mem : lv[r] = 4 =>
                 \A v \in Nat : PhysAt(mem', r, v) = PhysAt(mem, r, v)
    BY <1>0, <2>1, <2>2, <2>3, <2>4, CreateEffect
  <2>6. /\ Forest(mem', ln)
        /\ DOMAIN mem \subseteq DOMAIN mem' /\ \A x \in DOMAIN mem : ln[x] = lv[x]
        /\ DOMAIN mem' \subseteq DOMAIN mem \cup {page}
    BY <2>1, <2>2, <2>5 DEF Extends
  <2>7. /\ DOMAIN pml4' = DOMAIN pml4 \cup {as} /\ pml4'[as] = page
        /\ \A s \in DOMAIN pml4 : pml4'[s] = pml4[s]
    BY <2>1 DEF With
  <2>8. RootsInv(ln)'
    <3>1. \A s \in DOMAIN pml4 : pml4[s] \in DOMAIN mem /\ lv[pml4[s]] = 4
      BY <1>0 DEF RootsInv, Tables
    <3>2. \A s \in DOMAIN pml4' : pml4'[s] \in DOMAIN mem' /\ ln[pml4'[s]] = 4
      BY <2>5, <2>6, <2>7, <3>1
    <3>3. cr3' \in DOMAIN mem' /\ ln[cr3'] = 4
      BY <2>1, <2>3, <2>6
    <3>. QED  BY <3>2, <3>3 DEF RootsInv, Tables
  <2>9. PagesInv'
    BY <1>i, <2>1, <2>2, <2>6 DEF PagesInv, Tables, Ram
  <2>10. PhaseInv'
    BY <1>i, <2>1, <2>7 DEF PhaseInv
  <2>11. TlbInv'
    BY <1>i, <2>1, <2>3, <2>5 DEF TlbInv
  <2>. QED  BY <2>6, <2>8, <2>9, <2>10, <2>11 DEF TreeInv
<1>7. ASSUME NEW as \in 1 .. MaxSpaces, vmm_destroy_address_space(as) PROVE TreeInv'
  <2>1. /\ as \in DOMAIN pml4 \ {g_kernel_as}
        /\ pml4' = [s \in DOMAIN pml4 \ {as} |-> pml4[s]] /\ pc = "run"
        /\ UNCHANGED <<layout, pc, todo, mem, free, held, cr3, tlb>>
    BY <1>7 DEF vmm_destroy_address_space
  <2>2. Forest(mem', lv) /\ RootsInv(lv)'
    BY <1>0, <2>1, SameTables
  <2>3. PagesInv' /\ PhaseInv' /\ TlbInv'
    BY <1>i, <2>1 DEF PagesInv, PhaseInv, TlbInv, Tables, Ram
  <2>. QED  BY <2>2, <2>3 DEF TreeInv
<1>8. ASSUME NEW as \in 1 .. MaxSpaces, NEW v \in ClientVirts, ClientUnmap(as, v) PROVE TreeInv'
  <2>1. /\ pc = "run" /\ as \in DOMAIN pml4 /\ vmm_unmap(pml4[as], v)
        /\ UNCHANGED <<layout, pc, todo, held, pml4, cr3>>
    BY <1>8 DEF ClientUnmap
  <2>2. pml4[as] \in DOMAIN mem /\ lv[pml4[as]] = 4
    BY <1>0, <2>1 DEF RootsInv, Tables
  <2>3. v \in Nat /\ v \in 0 .. (VirtPages - 1) /\ cr3 # 0
    BY <1>c, <1>i, <2>1, SpaceSize DEF PhaseInv
  <2>4. PICK ok \in BOOLEAN :
           /\ last' = [op |-> "unmap", root |-> pml4[as], virt |-> v, phys |-> 0, ok |-> ok]
           /\ Extends(mem, lv, free, mem', lv, free')
           /\ OneChange(mem, lv, mem', v, ABSENT, ok)
           /\ tlb' = IF ok THEN invlpg(v) ELSE tlb
    BY <1>0, <2>1, <2>2, <2>3, UnmapEffect
  <2>5. PagesInv' /\ Forest(mem', lv) /\ RootsInv(lv)' /\ TlbInv'
    BY <1>0, <1>i, <2>1, <2>3, <2>4, ChangeKeepsTree
  <2>6. PhaseInv'
    BY <1>i, <2>1 DEF PhaseInv
  <2>. QED  BY <2>5, <2>6 DEF TreeInv
<1>9. ASSUME NEW as \in 1 .. MaxSpaces, NEW v \in ClientVirts, NEW p \in held,
             ClientMap(as, v, p)
      PROVE  TreeInv'
  <2>1. /\ pc = "run" /\ as \in DOMAIN pml4 /\ vmm_map(pml4[as], v, p)
        /\ UNCHANGED <<layout, pc, todo, held, pml4, cr3>>
    BY <1>9 DEF ClientMap
  <2>2. v \in Nat /\ v \in 0 .. (VirtPages - 1) /\ p \in Nat
    BY <1>c, <1>p, SpaceSize
  <2>3. PagesInv' /\ TlbInv' /\ \E ln : Forest(mem', ln) /\ RootsInv(ln)'
    BY <1>m, <2>1, <2>2
  <2>4. PhaseInv'
    BY <1>i, <2>1 DEF PhaseInv
  <2>. QED  BY <2>3, <2>4 DEF TreeInv
<1>10. ASSUME NEW as \in Spaces, vmm_switch_to(as) PROVE TreeInv'
  <2>1. /\ pc = "run" /\ as \in DOMAIN pml4 /\ cr3' = pml4[as] /\ tlb' = {}
        /\ UNCHANGED <<layout, pc, todo, mem, free, held, pml4>>
    BY <1>10 DEF vmm_switch_to
  <2>2. pml4[as] # 0
    BY <1>0, <1>i, <2>1 DEF RootsInv, PagesInv, Tables
  <2>3. Forest(mem', lv) /\ RootsInv(lv)'
    BY <1>0, <2>1, SameTables
  <2>4. PagesInv' /\ PhaseInv' /\ TlbInv'
    BY <1>i, <2>1, <2>2 DEF PagesInv, PhaseInv, TlbInv, Tables, Ram
  <2>. QED  BY <2>3, <2>4 DEF TreeInv
<1>11. ASSUME NEW p \in DevicePages, DriverMap(p) PROVE TreeInv'
  <2>1. /\ pc = "run" /\ g_kernel_as \in DOMAIN pml4 /\ vmm_map(pml4[g_kernel_as], p, p)
        /\ UNCHANGED <<layout, pc, todo, held, pml4, cr3>>
    BY <1>11, <1>i DEF DriverMap, PhaseInv
  <2>2. p \in Nat /\ p \in 0 .. (VirtPages - 1)
    BY <1>c, SpaceSize
  <2>3. PagesInv' /\ TlbInv' /\ \E ln : Forest(mem', ln) /\ RootsInv(ln)'
    BY <1>m, <2>1, <2>2
  <2>4. PhaseInv'
    BY <1>i, <2>1 DEF PhaseInv
  <2>. QED  BY <2>3, <2>4 DEF TreeInv
<1>12. ASSUME NEW p \in held, ClientFree(p) PROVE TreeInv'
  <2>1. /\ held' = held \ {p} /\ free' = free \cup {p} /\ pc = "run"
        /\ UNCHANGED <<layout, pc, todo, mem, pml4, cr3, tlb>>
    BY <1>12 DEF ClientFree
  <2>2. Forest(mem', lv) /\ RootsInv(lv)'
    BY <1>0, <2>1, SameTables
  <2>3. PagesInv' /\ PhaseInv' /\ TlbInv'
    BY <1>i, <2>1 DEF PagesInv, PhaseInv, TlbInv, Tables, Ram
  <2>. QED  BY <2>2, <2>3 DEF TreeInv
<1>13. ASSUME NEW v \in ClientVirts, Access(v) PROVE TreeInv'
  <2>1. /\ tlb' = tlb \cup {[virt |-> v, phys |-> vmm_get_phys(cr3, v)]} /\ pc = "run"
        /\ UNCHANGED <<layout, pc, todo, mem, free, held, pml4, cr3>>
    BY <1>13 DEF Access
  <2>2. Forest(mem', lv) /\ RootsInv(lv)'
    BY <1>0, <2>1, SameTables
  <2>3. PagesInv' /\ PhaseInv'
    BY <1>i, <2>1 DEF PagesInv, PhaseInv, Tables, Ram
  <2>4. TlbInv'
    BY <1>c, <1>i, <2>1, PhysIsPhysAt DEF TlbInv
  <2>. QED  BY <2>2, <2>3, <2>4 DEF TreeInv
<1>14. CASE UNCHANGED vars
  <2>1. UNCHANGED <<layout, pc, todo, mem, free, held, pml4, cr3, tlb>>
    BY <1>14 DEF vars
  <2>2. Forest(mem', lv) /\ RootsInv(lv)'
    BY <1>0, <2>1, SameTables
  <2>3. PagesInv' /\ PhaseInv' /\ TlbInv'
    BY <1>i, <2>1 DEF PagesInv, PhaseInv, TlbInv, Tables, Ram
  <2>. QED  BY <2>2, <2>3 DEF TreeInv
<1>. QED
  BY <1>1, <1>2, <1>3, <1>4, <1>5, <1>6, <1>7, <1>8, <1>9, <1>10, <1>11, <1>12,
     <1>13, <1>14 DEF Next

LEMMA TreeInvariant == Spec => []TreeInv
BY InitTree, NextTree, PTL DEF Spec

\* Levels make a tree of what is reachable from the roots.
LEMMA TreeMeansTablesFormTree == TreeInv => TablesFormTree
<1>. SUFFICES ASSUME TreeInv PROVE TablesFormTree  OBVIOUS
<1>0. PICK lv : Forest(mem, lv) /\ RootsInv(lv)
  BY DEF TreeInv
<1>i. PagesInv
  BY DEF TreeInv
<1>. DEFINE Level(S, level) == \A t \in S : t \in DOMAIN mem /\ lv[t] = level
<1>1. Level(Roots, 4)
  BY <1>0 DEF RootsInv, Roots, Tables
<1>2. ASSUME NEW S, NEW level \in 2 .. 4, Level(S, level)
      PROVE  Level(Below(S), level - 1)
  BY <1>0, <1>2 DEF Below, Forest, Leveled
<1>. HIDE DEF Level
<1>3. Level(Pdpts, 3)
  BY <1>1, <1>2 DEF Pdpts
<1>4. Level(Pds, 2)
  BY <1>2, <1>3 DEF Pds
<1>5. Level(Pts, 1)
  BY <1>2, <1>4 DEF Pts
<1>6. ASSUME NEW S, NEW level \in 2 .. 3, Level(S, level), NEW p \in Below(S)
      PROVE  Cardinality(Slots(S, p)) = 1
  <2>1. PICK t \in S, i \in Index : mem[t][i] = p /\ p # ABSENT
    BY <1>6 DEF Below
  <2>2. \A s \in Slots(S, p) : s = <<t, i>>
    <3>. SUFFICES ASSUME NEW s \in Slots(S, p) PROVE s = <<t, i>>
      OBVIOUS
    <3>1. s[1] \in S /\ s[2] \in Index /\ s = <<s[1], s[2]>> /\ mem[s[1]][s[2]] = p
      BY DEF Slots
    <3>2. s[1] \in DOMAIN mem /\ lv[s[1]] = level /\ t \in DOMAIN mem /\ lv[t] = level
      BY <1>6, <3>1 DEF Level
    <3>3. s[2] = i /\ s[1] = t
      BY <1>0, <2>1, <3>1, <3>2 DEF Forest, OneParent
    <3>. QED  BY <3>1, <3>3
  <2>3. <<t, i>> \in Slots(S, p)
    BY <2>1 DEF Slots
  <2>4. Slots(S, p) = {<<t, i>>}
    BY <2>2, <2>3
  <2>. QED  BY <2>4, FS_Singleton
<1>7. /\ Pdpts \cup Pds \cup Pts \subseteq Tables
      /\ Roots \cap (Pdpts \cup Pds \cup Pts) = {}
      /\ Pdpts \cap (Pds \cup Pts) = {} /\ Pds \cap Pts = {}
  BY <1>1, <1>3, <1>4, <1>5 DEF Level, Tables
<1>8. /\ \A p \in Pds : Cardinality(Slots(Pdpts, p)) = 1
      /\ \A p \in Pts : Cardinality(Slots(Pds, p)) = 1
  BY <1>3, <1>4, <1>6 DEF Pds, Pts
<1>. QED
  BY <1>i, <1>7, <1>8 DEF TablesFormTree, PagesInv

\* Whatever the machine and the calls, also calls that run out of pages half-way
\* through a walk: the page tables of the address spaces form a tree of
\* allocated pages (get_or_create_table, vmm_create_address_space).
THEOREM TablesAlwaysFormTree == Spec => []TablesFormTree
BY TreeInvariant, TreeMeansTablesFormTree, PTL

\* Every translation the processor has cached is that of the running tables:
\* invlpg in vmm_map and vmm_unmap, and the load of CR3, are enough, also when
\* the call goes through another address space that shares the table.
THEOREM TlbAlwaysCoherent == Spec => []TlbCoherent
<1>. TreeInv => TlbCoherent
  BY PhysIsPhysAt DEF TreeInv, TlbInv, TlbCoherent
<1>. QED  BY TreeInvariant, PTL
----------------------------------------------------------------------------
\* The frame of mapping and unmapping.

\* The pages the loader and vmm_init know of have an identity address: RAM ends
\* below the end of the virtual space.
PagesFit ==
    \A l \in Layouts :
       PagesOf(l.kernel) \cup PagesOf(l.usable) \cup PagesOf(l.framebuffer)
          \subseteq 0 .. (VirtPages - 1)

FrameStep ==
    /\ \A as \in DOMAIN pml4 \cap DOMAIN pml4', v \in Watched :
          vmm_get_phys(pml4[as], v)' # vmm_get_phys(pml4[as], v) =>
             last'.ok /\ last'.virt = v
    /\ last' # last /\ last'.op = "map" /\ last'.ok =>
          vmm_get_phys(last.root, last.virt)' = last'.phys

LEMMA WatchedInSpace ==
    ASSUME PagesFit, layout \in Layouts
    PROVE  Watched \subseteq 0 .. (VirtPages - 1)
<1>1. /\ KernelPages = PagesOf(layout.kernel) /\ Ram = PagesOf(layout.usable)
      /\ {layout.framebuffer[i] : i \in DOMAIN layout.framebuffer} = PagesOf(layout.framebuffer)
  BY DEF KernelPages, Ram, PagesOf
<1>2. Mapped \subseteq 0 .. (VirtPages - 1)
  BY <1>1 DEF Mapped, PagesFit
<1>3. \A p \in Mapped : HigherHalf(p) \in 0 .. (VirtPages - 1)
  BY <1>2, HigherHalfInSpace, SpaceSize
<1>. QED  BY <1>2, <1>3, SpaceAssumption DEF Watched

LEMMA PhysIsPhysAtNext ==
    \A as, v : (vmm_get_phys(pml4[as], v))' = PhysAt(mem', pml4'[as], v)
BY DEF vmm_get_phys, PhysAt, PhysIn, TableIn, FindTable, Entry, EntryIn

\* The property of the runs for one step, in terms of PhysAt.
FrameAt ==
    /\ \A as \in DOMAIN pml4 \cap DOMAIN pml4', v \in Watched :
          PhysAt(mem', pml4'[as], v) # PhysAt(mem, pml4[as], v) =>
             last'.ok /\ last'.virt = v
    /\ last' # last /\ last'.op = "map" /\ last'.ok =>
          PhysAt(mem', last'.root, last'.virt) = last'.phys

LEMMA FrameAtSuffices == FrameAt => FrameStep
<1>1. (vmm_get_phys(last.root, last.virt))' = PhysAt(mem', last'.root, last'.virt)
  BY DEF vmm_get_phys, PhysAt, PhysIn, TableIn, FindTable, Entry, EntryIn
<1>. QED
  BY <1>1, PhysIsPhysAt, PhysIsPhysAtNext DEF FrameAt, FrameStep

\* A step that maps or unmaps.
LEMMA ChangeFrame ==
    ASSUME PagesFit, TreeInv, NEW lv, Forest(mem, lv), RootsInv(lv),
           NEW virt \in 0 .. (VirtPages - 1), NEW value, NEW ok \in BOOLEAN,
           OneChange(mem, lv, mem', virt, value, ok), pml4' = pml4,
           last'.virt = virt, last'.ok = ok
    PROVE  \A as \in DOMAIN pml4 \cap DOMAIN pml4', v \in Watched :
              PhysAt(mem', pml4'[as], v) # PhysAt(mem, pml4[as], v) =>
                 last'.ok /\ last'.virt = v
<1>. SUFFICES ASSUME NEW as \in DOMAIN pml4, NEW v \in Watched,
                     PhysAt(mem', pml4[as], v) # PhysAt(mem, pml4[as], v)
              PROVE  ok /\ virt = v
  OBVIOUS
<1>1. v \in 0 .. (VirtPages - 1) /\ v \in Nat
  BY WatchedInSpace, SpaceSize DEF TreeInv, PagesInv
<1>2. pml4[as] \in DOMAIN mem /\ lv[pml4[as]] = 4
  BY DEF RootsInv, Tables
<1>3. ok /\ Digits(v) = Digits(virt)
  BY <1>1, <1>2 DEF OneChange
<1>. QED  BY <1>1, <1>3, DigitsDetermine

\* A call of vmm_map.
LEMMA MapFrameStep ==
    ASSUME PagesFit, TreeInv, NEW as \in DOMAIN pml4, NEW virt \in 0 .. (VirtPages - 1),
           NEW phys \in Nat, vmm_map(pml4[as], virt, phys), pml4' = pml4
    PROVE  FrameAt
<1>0. PICK lv : Forest(mem, lv) /\ RootsInv(lv)
  BY DEF TreeInv
<1>1. PoolOf(mem, free) /\ pml4[as] \in DOMAIN mem /\ lv[pml4[as]] = 4 /\ virt \in Nat
  <2>1. PagesInv  BY DEF TreeInv
  <2>2. PoolOf(mem, free)  BY <2>1, RamIsNat
  <2>3. virt \in Nat  BY SpaceSize
  <2>. QED  BY <1>0, <2>2, <2>3 DEF RootsInv, Tables
<1>2. PICK ln : \E ok \in BOOLEAN :
         /\ last' = [op |-> "map", root |-> pml4[as], virt |-> virt, phys |-> phys,
                     ok |-> ok]
         /\ Extends(mem, lv, free, mem', ln, free')
         /\ OneChange(mem, lv, mem', virt, phys, ok)
         /\ ok => PhysAt(mem', pml4[as], virt) = phys
         /\ tlb' = IF ok THEN invlpg(virt) ELSE tlb
  BY <1>0, <1>1, MapEffect
<1>3. PICK ok \in BOOLEAN :
         /\ last' = [op |-> "map", root |-> pml4[as], virt |-> virt, phys |-> phys,
                     ok |-> ok]
         /\ OneChange(mem, lv, mem', virt, phys, ok)
         /\ ok => PhysAt(mem', pml4[as], virt) = phys
  BY <1>2
<1>4. /\ last'.virt = virt /\ last'.ok = ok /\ last'.root = pml4[as] /\ last'.phys = phys
  BY <1>3
<1>5. \A s \in DOMAIN pml4 \cap DOMAIN pml4', v \in Watched :
         PhysAt(mem', pml4'[s], v) # PhysAt(mem, pml4[s], v) =>
            last'.ok /\ last'.virt = v
  BY <1>0, <1>3, <1>4, ChangeFrame
<1>6. last'.ok => PhysAt(mem', last'.root, last'.virt) = last'.phys
  BY <1>3, <1>4
<1>. QED  BY <1>5, <1>6 DEF FrameAt

\* A step that changes no table and records no call.
LEMMA QuietFrame ==
    ASSUME mem' = mem, last' = last,
           \A as \in DOMAIN pml4 \cap DOMAIN pml4' : pml4'[as] = pml4[as]
    PROVE  FrameAt
BY DEF FrameAt

LEMMA NextFrame ==
    ASSUME PagesFit, TreeInv, [Next]_vars
    PROVE  FrameAt
<1>i. PagesInv /\ PhaseInv
  BY DEF TreeInv
<1>p. layout \in Layouts /\ held \subseteq Nat /\ free \subseteq Nat \ {0}
  BY <1>i, RamIsNat
<1>c. ClientVirts \subseteq 0 .. (VirtPages - 1) /\ DevicePages \subseteq 0 .. (VirtPages - 1)
  BY SpaceAssumption
<1>1. CASE AllocKernelPml4
  <2>1. DOMAIN pml4 = {} /\ last' = last
    BY <1>1, <1>i DEF AllocKernelPml4, PhaseInv
  <2>. QED  BY <2>1 DEF FrameAt
<1>2. CASE MapNext
  <2>1. /\ g_kernel_as \in DOMAIN pml4 /\ todo \in Seq(Promised(layout)) /\ todo # <<>>
        /\ vmm_map(pml4[g_kernel_as], Head(todo)[1], Head(todo)[2]) /\ pml4' = pml4
    BY <1>2, <1>i DEF MapNext, PhaseInv
  <2>2. Head(todo) \in Promised(layout)
    BY <2>1
  <2>3. Head(todo)[1] \in 0 .. (VirtPages - 1) /\ Head(todo)[2] \in Nat
    <3>1. \/ \E p \in PagesOf(layout.kernel) \cup PagesOf(layout.usable)
                        \cup PagesOf(layout.framebuffer) : Head(todo) = <<p, p>>
          \/ \E p \in PagesOf(layout.usable) \cup PagesOf(layout.kernel)
                        \cup PagesOf(layout.heap) : Head(todo) = <<HigherHalf(p), p>>
      BY <2>2 DEF Promised
    <3>2. CASE \E p \in PagesOf(layout.kernel) \cup PagesOf(layout.usable)
                         \cup PagesOf(layout.framebuffer) : Head(todo) = <<p, p>>
      <4>1. PICK p \in PagesOf(layout.kernel) \cup PagesOf(layout.usable)
                         \cup PagesOf(layout.framebuffer) : Head(todo) = <<p, p>>
        BY <3>2
      <4>2. p \in 0 .. (VirtPages - 1)
        BY <1>p, <4>1 DEF PagesFit
      <4>. QED  BY <4>1, <4>2, SpaceSize
    <3>3. CASE \E p \in PagesOf(layout.usable) \cup PagesOf(layout.kernel)
                         \cup PagesOf(layout.heap) : Head(todo) = <<HigherHalf(p), p>>
      <4>1. PICK p \in PagesOf(layout.usable) \cup PagesOf(layout.kernel)
                         \cup PagesOf(layout.heap) : Head(todo) = <<HigherHalf(p), p>>
        BY <3>3
      <4>2. p \in Nat
        BY <1>p, <4>1, LayoutPages
      <4>3. HigherHalf(p) \in 0 .. (VirtPages - 1)
        BY <4>2, HigherHalfInSpace
      <4>. QED  BY <4>1, <4>2, <4>3
    <3>. QED  BY <3>1, <3>2, <3>3
  <2>. QED  BY <2>1, <2>3, MapFrameStep
<1>3. CASE SwitchToOwnTables
  BY <1>3, QuietFrame DEF SwitchToOwnTables
<1>4. CASE Panic
  BY <1>4, QuietFrame DEF Panic
<1>5. CASE ClientAlloc
  BY <1>5, QuietFrame DEF ClientAlloc
<1>6. ASSUME NEW as \in 1 .. MaxSpaces, vmm_create_address_space(as) PROVE FrameAt
  <2>0. PICK lv : Forest(mem, lv) /\ RootsInv(lv)
    BY DEF TreeInv
  <2>. DEFINE page == pmm_alloc_page(free)
              root == pml4[g_kernel_as]
  <2>1. /\ pc = "run" /\ as \notin DOMAIN pml4 /\ page # 0
        /\ mem' = With(mem, page, mem[root]) /\ free' = free \ {page}
        /\ pml4' = With(pml4, as, page) /\ last' = last
    BY <1>6 DEF vmm_create_address_space
  <2>2. page \in free
    BY <1>p, <2>1, AllocFree
  <2>3. root \in DOMAIN mem /\ lv[root] = 4
    BY <2>0, <1>i, <2>1 DEF RootsInv, Tables, PhaseInv
  <2>. HIDE DEF page, root
  <2>4. page \in Nat \ {0} /\ page \notin DOMAIN mem
    BY <1>i, <1>p, <2>2 DEF PagesInv, Tables
  <2>5. PICK ln :
           /\ Extends(mem, lv, free, mem', ln, free')
           /\ page \in DOMAIN mem' /\ ln[page] = 4
           /\ \A v \in Nat : PhysAt(mem', page, v) = PhysAt(mem, root, v)
           /\ \A r \in DOMAIN mem : lv[r] = 4 =>
                 \A v \in Nat : PhysAt(mem', r, v) = PhysAt(mem, r, v)
    BY <2>0, <2>1, <2>2, <2>3, <2>4, CreateEffect
  <2>6. \A s \in DOMAIN pml4 : pml4'[s] = pml4[s]
    BY <2>1 DEF With
  <2>7. \A s \in DOMAIN pml4 : pml4[s] \in DOMAIN mem /\ lv[pml4[s]] = 4
    BY <2>0 DEF RootsInv, Tables
  <2>8. \A v \in Watched : v \in Nat
    BY <1>p, WatchedInSpace, SpaceSize
  <2>9. \A s \in DOMAIN pml4, v \in Watched :
           PhysAt(mem', pml4'[s], v) = PhysAt(mem, pml4[s], v)
    BY <2>5, <2>6, <2>7, <2>8
  <2>. QED  BY <2>1, <2>9 DEF FrameAt
<1>7. ASSUME NEW as \in 1 .. MaxSpaces, vmm_destroy_address_space(as) PROVE FrameAt
  BY <1>7, QuietFrame DEF vmm_destroy_address_space
<1>8. ASSUME NEW as \in 1 .. MaxSpaces, NEW v \in ClientVirts, ClientUnmap(as, v) PROVE FrameAt
  <2>0. PICK lv : Forest(mem, lv) /\ RootsInv(lv)
    BY DEF TreeInv
  <2>1. as \in DOMAIN pml4 /\ vmm_unmap(pml4[as], v) /\ pml4' = pml4
    BY <1>8 DEF ClientUnmap
  <2>2. pml4[as] \in DOMAIN mem /\ lv[pml4[as]] = 4
    BY <2>0, <2>1 DEF RootsInv, Tables
  <2>3. v \in Nat /\ v \in 0 .. (VirtPages - 1)
    BY <1>c, SpaceSize
  <2>4. PICK ok \in BOOLEAN :
           /\ last' = [op |-> "unmap", root |-> pml4[as], virt |-> v, phys |-> 0, ok |-> ok]
           /\ Extends(mem, lv, free, mem', lv, free')
           /\ OneChange(mem, lv, mem', v, ABSENT, ok)
           /\ tlb' = IF ok THEN invlpg(v) ELSE tlb
    BY <2>0, <2>1, <2>2, <2>3, UnmapEffect
  <2>5. last'.virt = v /\ last'.ok = ok /\ last'.op = "unmap"
    BY <2>4
  <2>6. \A s \in DOMAIN pml4 \cap DOMAIN pml4', u \in Watched :
           PhysAt(mem', pml4'[s], u) # PhysAt(mem, pml4[s], u) =>
              last'.ok /\ last'.virt = u
    BY <2>0, <2>1, <2>3, <2>4, <2>5, ChangeFrame
  <2>. QED  BY <2>5, <2>6 DEF FrameAt
<1>9. ASSUME NEW as \in 1 .. MaxSpaces, NEW v \in ClientVirts, NEW p \in held,
             ClientMap(as, v, p)
      PROVE  FrameAt
  BY <1>9, <1>c, <1>p, MapFrameStep DEF ClientMap
<1>10. ASSUME NEW as \in Spaces, vmm_switch_to(as) PROVE FrameAt
  BY <1>10, QuietFrame DEF vmm_switch_to
<1>11. ASSUME NEW p \in DevicePages, DriverMap(p) PROVE FrameAt
  <2>1. g_kernel_as \in DOMAIN pml4 /\ p \in 0 .. (VirtPages - 1) /\ p \in Nat
    BY <1>11, <1>c, <1>i, SpaceSize DEF DriverMap, PhaseInv
  <2>. QED  BY <1>11, <2>1, MapFrameStep DEF DriverMap
<1>12. ASSUME NEW p \in held, ClientFree(p) PROVE FrameAt
  BY <1>12, QuietFrame DEF ClientFree
<1>13. ASSUME NEW v \in ClientVirts, Access(v) PROVE FrameAt
  BY <1>13, QuietFrame DEF Access
<1>14. CASE UNCHANGED vars
  BY <1>14, QuietFrame DEF vars
<1>. QED
  BY <1>1, <1>2, <1>3, <1>4, <1>5, <1>6, <1>7, <1>8, <1>9, <1>10, <1>11, <1>12,
     <1>13, <1>14 DEF Next

\* On every machine whose pages have an identity address: mapping and unmapping
\* change the translation of their own address only, in every address space; a
\* call that fails changes none; what a vmm_map that succeeds maps is then
\* found (vmm_map, vmm_unmap, vmm_create_address_space).
THEOREM MapFrameHolds == ASSUME PagesFit PROVE Spec => MapFrame
<1>1. TreeInv /\ [Next]_vars => FrameStep
  BY NextFrame, FrameAtSuffices
<1>2. TreeInv /\ [Next]_vars => [FrameStep]_vars
  BY <1>1
<1>. QED  BY <1>2, TreeInvariant, PTL DEF Spec, MapFrame, FrameStep
----------------------------------------------------------------------------
\* The map of the kernel.

\* No address is promised twice or mapped by others: what is mapped at its own
\* address lies below the higher half, what is mapped in the higher half does
\* not wrap, and clients map elsewhere.  KERNEL_VIRT_BASE leaves 2 GB for it.
NoWrap ==
    /\ \A l \in Layouts :
          /\ PagesOf(l.kernel) \cup PagesOf(l.usable) \cup PagesOf(l.framebuffer)
                \subseteq 0 .. (KERNEL_VIRT_BASE - 1)
          /\ \A p \in PagesOf(l.kernel) \cup PagesOf(l.usable) \cup PagesOf(l.heap) :
                KERNEL_VIRT_BASE + p < VirtPages
          /\ \A pr \in Promised(l) : pr[1] \notin ClientVirts
    /\ DevicePages \subseteq 0 .. (KERNEL_VIRT_BASE - 1)

\* Every address space in use translates as vmm_init has promised, but for the
\* calls vmm_init has still to make.
MappedInv ==
    /\ pc = "start" => todo = InitMappings(layout)
    /\ ~starved /\ pc \in {"init", "run"} =>
          \A r \in Roots, pr \in Promised(layout) :
             \/ PhysAt(mem, r, pr[1]) = pr[2]
             \/ pc = "init" /\ \E j \in DOMAIN todo : todo[j] = pr

LEMMA KernelBase == KERNEL_VIRT_BASE \in Nat
BY SpaceAssumption, SpaceSize

\* What a promised pair is.
LEMMA PromisedCases ==
    ASSUME NoWrap, NEW l \in Layouts, NEW pr \in Promised(l)
    PROVE  /\ pr[1] \in 0 .. (VirtPages - 1) /\ pr[1] \in Nat /\ pr[2] \in Nat
           /\ pr[1] < KERNEL_VIRT_BASE => pr[1] = pr[2]
           /\ pr[1] >= KERNEL_VIRT_BASE => pr[1] = KERNEL_VIRT_BASE + pr[2]
           /\ pr = <<pr[1], pr[2]>>
<1>1. CASE \E p \in PagesOf(l.kernel) \cup PagesOf(l.usable) \cup PagesOf(l.framebuffer) :
              pr = <<p, p>>
  <2>1. PICK p \in PagesOf(l.kernel) \cup PagesOf(l.usable) \cup PagesOf(l.framebuffer) :
           pr = <<p, p>>
    BY <1>1
  <2>2. p \in 0 .. (KERNEL_VIRT_BASE - 1)
    BY <2>1 DEF NoWrap
  <2>. QED  BY <2>1, <2>2, KernelBase, SpaceSize, SpaceAssumption
<1>2. CASE \E p \in PagesOf(l.usable) \cup PagesOf(l.kernel) \cup PagesOf(l.heap) :
              pr = <<HigherHalf(p), p>>
  <2>1. PICK p \in PagesOf(l.usable) \cup PagesOf(l.kernel) \cup PagesOf(l.heap) :
           pr = <<HigherHalf(p), p>>
    BY <1>2
  <2>2. p \in Nat /\ KERNEL_VIRT_BASE + p < VirtPages
    BY <2>1, LayoutPages DEF NoWrap
  <2>3. HigherHalf(p) = KERNEL_VIRT_BASE + p
    <3>1. KERNEL_VIRT_BASE + p \in Nat /\ VirtPages \in Nat
      BY <2>2, KernelBase, SpaceSize
    <3>. QED  BY <2>2, <3>1, SmallMod DEF HigherHalf
  <2>. QED  BY <2>1, <2>2, <2>3, KernelBase, SpaceSize
<1>. QED
  BY <1>1, <1>2 DEF Promised

LEMMA PromisedOnce ==
    ASSUME NoWrap, NEW l \in Layouts, NEW pr \in Promised(l), NEW qr \in Promised(l),
           pr[1] = qr[1]
    PROVE  pr = qr
<1>1. /\ pr[2] \in Nat /\ qr[2] \in Nat /\ pr[1] \in Nat
      /\ pr = <<pr[1], pr[2]>> /\ qr = <<qr[1], qr[2]>>
      /\ pr[1] < KERNEL_VIRT_BASE => pr[1] = pr[2] /\ qr[1] = qr[2]
      /\ pr[1] >= KERNEL_VIRT_BASE =>
            pr[1] = KERNEL_VIRT_BASE + pr[2] /\ qr[1] = KERNEL_VIRT_BASE + qr[2]
  BY PromisedCases
<1>2. pr[2] = qr[2]
  BY <1>1, KernelBase
<1>. QED  BY <1>1, <1>2

\* A call that agrees with the promises keeps them, in every address space.
LEMMA ChangeKeepsPromise ==
    ASSUME NoWrap, layout \in Layouts, NEW lv, RootsInv(lv), NEW r \in Roots,
           NEW pr \in Promised(layout), PhysAt(mem, r, pr[1]) = pr[2],
           NEW virt \in 0 .. (VirtPages - 1), NEW value, NEW ok \in BOOLEAN,
           OneChange(mem, lv, mem', virt, value, ok),
           virt = pr[1] => value = pr[2]
    PROVE  PhysAt(mem', r, pr[1]) = pr[2]
<1>1. r \in DOMAIN mem /\ lv[r] = 4
  BY DEF Roots, RootsInv, Tables
<1>2. pr[1] \in 0 .. (VirtPages - 1) /\ pr[1] \in Nat
  BY PromisedCases
<1>3. \/ PhysAt(mem', r, pr[1]) = PhysAt(mem, r, pr[1])
      \/ ok /\ Digits(pr[1]) = Digits(virt) /\ PhysAt(mem', r, pr[1]) = value
  BY <1>1, <1>2 DEF OneChange
<1>. QED  BY <1>2, <1>3, DigitsDetermine

\* The same for a call of vmm_map while the system runs.
LEMMA RunMapKeepsPromise ==
    ASSUME NoWrap, TreeInv, MappedInv, pc = "run", NEW as \in DOMAIN pml4,
           NEW virt \in 0 .. (VirtPages - 1), NEW phys \in Nat,
           vmm_map(pml4[as], virt, phys),
           \A pr \in Promised(layout) : virt = pr[1] => phys = pr[2],
           UNCHANGED <<layout, starved, pc, pml4, cr3>>
    PROVE  MappedInv'
<1>0. PICK lv : Forest(mem, lv) /\ RootsInv(lv)
  BY DEF TreeInv
<1>i. PagesInv
  BY DEF TreeInv
<1>1. PoolOf(mem, free) /\ pml4[as] \in DOMAIN mem /\ lv[pml4[as]] = 4 /\ virt \in Nat
      /\ layout \in Layouts
  <2>1. PoolOf(mem, free) /\ layout \in Layouts  BY <1>i, RamIsNat
  <2>2. virt \in Nat  BY SpaceSize
  <2>. QED  BY <1>0, <2>1, <2>2 DEF RootsInv, Tables
<1>2. PICK ln : \E ok \in BOOLEAN :
         /\ last' = [op |-> "map", root |-> pml4[as], virt |-> virt, phys |-> phys,
                     ok |-> ok]
         /\ Extends(mem, lv, free, mem', ln, free')
         /\ OneChange(mem, lv, mem', virt, phys, ok)
         /\ ok => PhysAt(mem', pml4[as], virt) = phys
         /\ tlb' = IF ok THEN invlpg(virt) ELSE tlb
  BY <1>0, <1>1, MapEffect
<1>3. PICK ok \in BOOLEAN : OneChange(mem, lv, mem', virt, phys, ok)
  BY <1>2
<1>4. Roots' = Roots
  BY DEF Roots
<1>5. ASSUME ~starved, NEW r \in Roots, NEW pr \in Promised(layout)
      PROVE  PhysAt(mem', r, pr[1]) = pr[2]
  <2>1. PhysAt(mem, r, pr[1]) = pr[2]
    BY <1>5 DEF MappedInv
  <2>. QED  BY <1>0, <1>1, <1>3, <2>1, ChangeKeepsPromise
<1>. QED  BY <1>4, <1>5 DEF MappedInv

LEMMA InitMapped == Init => MappedInv
BY DEF Init, MappedInv

\* A step that leaves tables, roots and stage alone.
LEMMA QuietMapped ==
    ASSUME MappedInv, mem' = mem, UNCHANGED <<layout, starved, pc, todo>>,
           Roots' \subseteq Roots
    PROVE  MappedInv'
BY DEF MappedInv

LEMMA NextMapped ==
    ASSUME NoWrap, TreeInv, MappedInv, [Next]_vars
    PROVE  MappedInv'
<1>i. PagesInv /\ PhaseInv
  BY DEF TreeInv
<1>0. PICK lv : Forest(mem, lv) /\ RootsInv(lv)
  BY DEF TreeInv
<1>p. layout \in Layouts /\ held \subseteq Nat /\ free \subseteq Nat \ {0} /\ PoolOf(mem, free)
  BY <1>i, RamIsNat
<1>c. ClientVirts \subseteq 0 .. (VirtPages - 1) /\ DevicePages \subseteq 0 .. (VirtPages - 1)
  BY SpaceAssumption
<1>1. CASE AllocKernelPml4
  <2>1. pc' = "init" /\ UNCHANGED <<layout, starved, todo>> /\ pc = "start"
    BY <1>1 DEF AllocKernelPml4
  <2>2. Lists(todo, Promised(layout))
    BY <1>p, <2>1, InitMappingsListed DEF MappedInv
  <2>. QED  BY <2>1, <2>2 DEF MappedInv, Lists
<1>2. CASE MapNext
  <2>. DEFINE root == pml4[g_kernel_as]
  <2>1. /\ g_kernel_as \in DOMAIN pml4 /\ todo \in Seq(Promised(layout)) /\ todo # <<>>
        /\ vmm_map(root, Head(todo)[1], Head(todo)[2]) /\ cr3 = 0
        /\ pc = "init" /\ DOMAIN pml4 = {g_kernel_as}
        /\ todo' = Tail(todo) /\ starved' = (starved \/ ~last'.ok)
        /\ UNCHANGED <<layout, pc, pml4, cr3>>
    BY <1>2, <1>i DEF MapNext, PhaseInv
  <2>2. PICK head \in Promised(layout) : head = Head(todo)
    BY <2>1
  <2>3. head[1] \in 0 .. (VirtPages - 1) /\ head[1] \in Nat /\ head[2] \in Nat
    BY <1>p, PromisedCases
  <2>4. root \in DOMAIN mem /\ lv[root] = 4
    BY <1>0, <2>1 DEF RootsInv, Tables
  <2>. HIDE DEF root
  <2>5. PICK ln : \E ok \in BOOLEAN :
           /\ last' = [op |-> "map", root |-> root, virt |-> head[1], phys |-> head[2],
                       ok |-> ok]
           /\ Extends(mem, lv, free, mem', ln, free')
           /\ OneChange(mem, lv, mem', head[1], head[2], ok)
           /\ ok => PhysAt(mem', root, head[1]) = head[2]
           /\ tlb' = IF ok THEN invlpg(head[1]) ELSE tlb
    BY <1>0, <1>p, <2>1, <2>2, <2>3, <2>4, MapEffect
  <2>6. PICK ok \in BOOLEAN :
           /\ last'.ok = ok
           /\ OneChange(mem, lv, mem', head[1], head[2], ok)
           /\ ok => PhysAt(mem', root, head[1]) = head[2]
    <3>1. PICK ok \in BOOLEAN :
             /\ last' = [op |-> "map", root |-> root, virt |-> head[1], phys |-> head[2],
                         ok |-> ok]
             /\ OneChange(mem, lv, mem', head[1], head[2], ok)
             /\ ok => PhysAt(mem', root, head[1]) = head[2]
      BY <2>5
    <3>2. last'.ok = ok  BY <3>1
    <3>. QED  BY <3>1, <3>2
  <2>7. Roots' = Roots /\ Roots \subseteq {root}
    BY <2>1 DEF Roots, root
  <2>8. ASSUME ~starved', NEW r \in Roots, NEW pr \in Promised(layout)
        PROVE  PhysAt(mem', r, pr[1]) = pr[2] \/ \E j \in DOMAIN todo' : todo'[j] = pr
    <3>1. ~starved /\ ok
      BY <2>1, <2>6, <2>8
    <3>2. PhysAt(mem', root, head[1]) = head[2]
      BY <2>6, <3>1
    <3>3. CASE PhysAt(mem, r, pr[1]) = pr[2]
      <4>1. head[1] = pr[1] => head[2] = pr[2]
        BY <1>p, PromisedOnce
      <4>. QED  BY <1>0, <1>p, <2>3, <2>6, <3>3, <4>1, ChangeKeepsPromise
    <3>4. CASE \E j \in DOMAIN todo : todo[j] = pr
      <4>1. PICK j \in DOMAIN todo : todo[j] = pr
        BY <3>4
      <4>2. CASE j = 1
        BY <2>1, <2>2, <2>7, <3>2, <4>1, <4>2
      <4>3. CASE j # 1
        <5>1. j - 1 \in DOMAIN Tail(todo) /\ Tail(todo)[j - 1] = todo[j]
          BY <2>1, <4>1, <4>3
        <5>. QED  BY <2>1, <4>1, <5>1
      <4>. QED  BY <4>2, <4>3
    <3>. QED  BY <2>1, <3>1, <3>3, <3>4 DEF MappedInv
  <2>. QED  BY <2>1, <2>7, <2>8 DEF MappedInv
<1>3. CASE SwitchToOwnTables
  <2>1. /\ pc = "init" /\ pc' = "run" /\ todo = <<>> /\ cr3' = pml4[g_kernel_as]
        /\ UNCHANGED <<layout, starved, todo, mem, pml4>> /\ g_kernel_as \in DOMAIN pml4
    BY <1>3, <1>i DEF SwitchToOwnTables, PhaseInv
  <2>2. Roots' \subseteq Roots
    BY <2>1 DEF Roots
  <2>3. DOMAIN todo = {}
    BY <2>1
  <2>. QED  BY <2>1, <2>2, <2>3 DEF MappedInv
<1>4. CASE Panic
  BY <1>4 DEF Panic, MappedInv
<1>5. CASE ClientAlloc
  BY <1>5, QuietMapped DEF ClientAlloc, Roots
<1>6. ASSUME NEW as \in 1 .. MaxSpaces, vmm_create_address_space(as) PROVE MappedInv'
  <2>. DEFINE page == pmm_alloc_page(free)
              root == pml4[g_kernel_as]
  <2>1. /\ pc = "run" /\ as \notin DOMAIN pml4 /\ page # 0
        /\ mem' = With(mem, page, mem[root]) /\ free' = free \ {page}
        /\ pml4' = With(pml4, as, page)
        /\ UNCHANGED <<layout, starved, pc, todo, cr3>>
    BY <1>6 DEF vmm_create_address_space
  <2>2. page \in free
    BY <1>p, <2>1, AllocFree
  <2>3. root \in DOMAIN mem /\ lv[root] = 4 /\ root \in Roots
    BY <1>0, <1>i, <2>1 DEF RootsInv, Tables, PhaseInv, Roots, PagesInv
  <2>4. Roots' \subseteq Roots \cup {page}
    BY <2>1 DEF Roots, With
  <2>. HIDE DEF page, root
  <2>5. page \in Nat \ {0} /\ page \notin DOMAIN mem
    BY <1>i, <1>p, <2>2 DEF PagesInv, Tables
  <2>6. PICK ln :
           /\ Extends(mem, lv, free, mem', ln, free')
           /\ page \in DOMAIN mem' /\ ln[page] = 4
           /\ \A v \in Nat : PhysAt(mem', page, v) = PhysAt(mem, root, v)
           /\ \A r \in DOMAIN mem : lv[r] = 4 =>
                 \A v \in Nat : PhysAt(mem', r, v) = PhysAt(mem, r, v)
    BY <1>0, <2>1, <2>2, <2>3, <2>5, CreateEffect
  <2>7. ASSUME ~starved, NEW r \in Roots \cup {page}, NEW pr \in Promised(layout)
        PROVE  PhysAt(mem', r, pr[1]) = pr[2]
    <3>1. pr[1] \in Nat
      BY <1>p, PromisedCases
    <3>2. \A s \in Roots : PhysAt(mem, s, pr[1]) = pr[2]
      BY <2>1, <2>7 DEF MappedInv
    <3>3. \A s \in Roots : s \in DOMAIN mem /\ lv[s] = 4
      BY <1>0 DEF Roots, RootsInv, Tables
    <3>. QED  BY <2>3, <2>6, <2>7, <3>1, <3>2, <3>3
  <2>8. /\ pc' = "run" /\ layout' = layout /\ starved' = starved
    BY <2>1
  <2>9. ~starved => \A r \in Roots', pr \in Promised(layout) : PhysAt(mem', r, pr[1]) = pr[2]
    BY <2>4, <2>7
  <2>. QED  BY <2>8, <2>9 DEF MappedInv
<1>7. ASSUME NEW as \in 1 .. MaxSpaces, vmm_destroy_address_space(as) PROVE MappedInv'
  <2>1. /\ pml4' = [s \in DOMAIN pml4 \ {as} |-> pml4[s]]
        /\ UNCHANGED <<layout, starved, pc, todo, mem, cr3>>
    BY <1>7 DEF vmm_destroy_address_space
  <2>2. Roots' \subseteq Roots
    BY <2>1 DEF Roots
  <2>. QED  BY <2>1, <2>2, QuietMapped
<1>8. ASSUME NEW as \in 1 .. MaxSpaces, NEW v \in ClientVirts, ClientUnmap(as, v) PROVE MappedInv'
  <2>1. /\ as \in DOMAIN pml4 /\ vmm_unmap(pml4[as], v) /\ pc = "run"
        /\ UNCHANGED <<layout, starved, pc, todo, pml4, cr3>>
    BY <1>8 DEF ClientUnmap
  <2>2. pml4[as] \in DOMAIN mem /\ lv[pml4[as]] = 4
    BY <1>0, <2>1 DEF RootsInv, Tables
  <2>3. v \in Nat /\ v \in 0 .. (VirtPages - 1)
    BY <1>c, SpaceSize
  <2>4. PICK ok \in BOOLEAN :
           /\ last' = [op |-> "unmap", root |-> pml4[as], virt |-> v, phys |-> 0, ok |-> ok]
           /\ Extends(mem, lv, free, mem', lv, free')
           /\ OneChange(mem, lv, mem', v, ABSENT, ok)
           /\ tlb' = IF ok THEN invlpg(v) ELSE tlb
    BY <1>0, <2>1, <2>2, <2>3, UnmapEffect
  <2>5. Roots' = Roots
    BY <2>1 DEF Roots
  <2>6. ASSUME ~starved, NEW r \in Roots, NEW pr \in Promised(layout)
        PROVE  PhysAt(mem', r, pr[1]) = pr[2]
    <3>1. PhysAt(mem, r, pr[1]) = pr[2]
      BY <2>1, <2>6 DEF MappedInv
    <3>2. v # pr[1]
      BY <1>p DEF NoWrap
    <3>. QED  BY <1>0, <1>p, <2>3, <2>4, <3>1, <3>2, ChangeKeepsPromise
  <2>. QED  BY <2>1, <2>5, <2>6 DEF MappedInv
<1>9. ASSUME NEW as \in 1 .. MaxSpaces, NEW v \in ClientVirts, NEW p \in held,
             ClientMap(as, v, p)
      PROVE  MappedInv'
  <2>1. /\ pc = "run" /\ as \in DOMAIN pml4 /\ vmm_map(pml4[as], v, p)
        /\ UNCHANGED <<layout, starved, pc, pml4, cr3>>
    BY <1>9 DEF ClientMap
  <2>2. \A pr \in Promised(layout) : v = pr[1] => p = pr[2]
    BY <1>p DEF NoWrap
  <2>3. v \in 0 .. (VirtPages - 1) /\ p \in Nat
    BY <1>c, <1>p
  <2>. QED  BY <2>1, <2>2, <2>3, RunMapKeepsPromise
<1>10. ASSUME NEW as \in Spaces, vmm_switch_to(as) PROVE MappedInv'
  <2>1. /\ as \in DOMAIN pml4 /\ cr3' = pml4[as]
        /\ UNCHANGED <<layout, starved, pc, todo, mem, pml4>>
    BY <1>10 DEF vmm_switch_to
  <2>2. Roots' \subseteq Roots
    BY <2>1 DEF Roots
  <2>. QED  BY <2>1, <2>2, QuietMapped
<1>11. ASSUME NEW p \in DevicePages, DriverMap(p) PROVE MappedInv'
  <2>1. /\ pc = "run" /\ g_kernel_as \in DOMAIN pml4 /\ vmm_map(pml4[g_kernel_as], p, p)
        /\ UNCHANGED <<layout, starved, pc, pml4, cr3>>
    BY <1>11, <1>i DEF DriverMap, PhaseInv
  <2>2. p \in 0 .. (VirtPages - 1) /\ p \in Nat /\ p < KERNEL_VIRT_BASE
    BY <1>c, SpaceSize, KernelBase DEF NoWrap
  <2>3. \A pr \in Promised(layout) : p = pr[1] => p = pr[2]
    BY <1>p, <2>2, PromisedCases
  <2>. QED  BY <2>1, <2>2, <2>3, RunMapKeepsPromise
<1>12. ASSUME NEW p \in held, ClientFree(p) PROVE MappedInv'
  BY <1>12, QuietMapped DEF ClientFree, Roots
<1>13. ASSUME NEW v \in ClientVirts, Access(v) PROVE MappedInv'
  BY <1>13, QuietMapped DEF Access, Roots
<1>14. CASE UNCHANGED vars
  BY <1>14, QuietMapped DEF vars, Roots
<1>. QED
  BY <1>1, <1>2, <1>3, <1>4, <1>5, <1>6, <1>7, <1>8, <1>9, <1>10, <1>11, <1>12,
     <1>13, <1>14 DEF Next

LEMMA MappedInvariant == ASSUME NoWrap PROVE Spec => [](TreeInv /\ MappedInv)
<1>1. TreeInv /\ MappedInv /\ [Next]_vars => MappedInv'
  BY NextMapped
<1>. QED  BY <1>1, InitMapped, TreeInvariant, PTL DEF Spec

\* On a machine where nothing wraps, and whose free pages are enough for the
\* tables: everything vmm_init promises is mapped in the kernel's address
\* space, and stays so whatever drivers and clients map and unmap.
THEOREM KernelMapIsComplete == ASSUME NoWrap PROVE Spec => []KernelMapComplete
<1>1. TreeInv /\ MappedInv => KernelMapComplete
  <2>. SUFFICES ASSUME TreeInv, MappedInv, pc = "run", ~starved
                PROVE  /\ \A p \in Mapped : vmm_get_phys(pml4[g_kernel_as], p) = p
                       /\ \A p \in Ram \cup KernelPages :
                             vmm_get_phys(pml4[g_kernel_as], HigherHalf(p)) = p
    BY DEF KernelMapComplete
  <2>0. PICK lv : RootsInv(lv)
    BY DEF TreeInv
  <2>1. pml4[g_kernel_as] \in Roots
    BY <2>0 DEF TreeInv, PhaseInv, PagesInv, RootsInv, Roots
  <2>2. \A pr \in Promised(layout) : PhysAt(mem, pml4[g_kernel_as], pr[1]) = pr[2]
    BY <2>1 DEF MappedInv
  <2>3. /\ \A p \in Mapped : <<p, p>> \in Promised(layout)
        /\ \A p \in Ram \cup KernelPages : <<HigherHalf(p), p>> \in Promised(layout)
    BY DEF Mapped, Ram, KernelPages, Promised, PagesOf
  <2>4. \A p \in Mapped : PhysAt(mem, pml4[g_kernel_as], p) = p
    <3>1. \A p \in Mapped : <<p, p>>[1] = p /\ <<p, p>>[2] = p  OBVIOUS
    <3>. QED  BY <2>2, <2>3, <3>1
  <2>5. \A p \in Ram \cup KernelPages : PhysAt(mem, pml4[g_kernel_as], HigherHalf(p)) = p
    <3>1. \A p \in Ram \cup KernelPages :
             <<HigherHalf(p), p>>[1] = HigherHalf(p) /\ <<HigherHalf(p), p>>[2] = p
      OBVIOUS
    <3>. QED  BY <2>2, <2>3, <3>1
  <2>. QED  BY <2>4, <2>5, PhysIsPhysAt
<1>. QED  BY <1>1, MappedInvariant, PTL

\* On such a machine every table, and every page that may become one, is mapped
\* at its own address in the running address space, also in one made by
\* vmm_create_address_space, and when that has been destroyed: the next
\* vmm_map or vmm_unmap can read and write the tables.
THEOREM CurrentAlwaysReachesTables ==
    ASSUME NoWrap PROVE Spec => []CurrentReachesTables
<1>1. TreeInv /\ MappedInv => CurrentReachesTables
  <2>. SUFFICES ASSUME TreeInv, MappedInv, pc = "run", ~starved,
                       NEW p \in Tables \cup free \cup held
                PROVE  vmm_get_phys(cr3, p) = p
    BY DEF CurrentReachesTables
  <2>1. p \in Ram
    BY DEF TreeInv, PagesInv
  <2>2. cr3 \in Roots
    BY DEF TreeInv, PhaseInv, Roots
  <2>3. <<p, p>> \in Promised(layout)
    BY <2>1 DEF Ram, Promised, PagesOf
  <2>4. PhysAt(mem, cr3, <<p, p>>[1]) = <<p, p>>[2]
    BY <2>2, <2>3 DEF MappedInv
  <2>. QED  BY <2>4, PhysIsPhysAt
<1>. QED  BY <1>1, MappedInvariant, PTL
=============================================================================
