--------------------------- MODULE KeyboardProofs ---------------------------
(***************************************************************************)
(* Theorems about Keyboard, for every size of the ring, every set of keys, *)
(* every number of bytes the controller holds back and every point at      *)
(* which an interrupt may hit keyboard_getchar.                            *)
(***************************************************************************)
EXTENDS Keyboard, SequenceTheorems, TLAPS

(***************************************************************************)
(* The inductive invariants.                                               *)
(***************************************************************************)

Slots == 0 .. KBD_BUF_SIZE - 1
Bytes == [code : Codes, released : BOOLEAN] \cup {Prefix}

TypeInv ==
    /\ wire \in Seq(Bytes)
    /\ g_head \in Slots /\ g_tail \in Slots
    /\ g_buf \in [Slots -> Chars \cup {NoKey}]
    /\ pc \in {"test", "read", "advance"}

\* The slots from the tail to the head hold keys, and a reader that found the
\* ring not empty still finds it so, with the key it read at the tail.
RingInv ==
    /\ \A i \in 1 .. Count : g_buf[(g_tail + i - 1) % KBD_BUF_SIZE] \in Chars
    /\ pc \in {"read", "advance"} => g_tail # g_head
    /\ pc = "advance" => c = g_buf[g_tail]

\* Place i of the wire, or the byte handled last (place 0), is a prefix.
IsPrefix(i) == IF i = 0 THEN g_extended ELSE wire[i] = Prefix

\* Byte i is a code of the set that no prefix precedes.
Plain(i, codes) == wire[i].code \in codes /\ ~IsPrefix(i - 1)
Pending(codes) == {i \in DOMAIN wire : Plain(i, codes)}
LastOf(i, codes) == i \in Pending(codes) /\ \A j \in Pending(codes) : j <= i

\* A prefix is followed by another byte, which is not a prefix.
PrefixesPaired ==
    \A i \in 0 .. Len(wire) : IsPrefix(i) => i < Len(wire) /\ ~IsPrefix(i + 1)

\* The last byte on its way decides a modifier, or the driver's flag when none
\* is on its way.
Settled(codes, flag, held) ==
    /\ Pending(codes) = {} => (flag <=> held)
    /\ \A i \in DOMAIN wire : LastOf(i, codes) => (~wire[i].released <=> held)
ShiftHeld == down \cap {"lshift", "rshift"} # {}
ModifierInv ==
    /\ Settled({"1D"}, g_ctrl, "lctrl" \in down)
    /\ Settled({"38"}, g_alt, "lalt" \in down)
    /\ Pending({"2A", "36"}) = {} => (g_shift => ShiftHeld)
    /\ \A i \in DOMAIN wire : LastOf(i, {"2A", "36"}) => (~wire[i].released => ShiftHeld)

FlagType ==
    /\ g_extended \in BOOLEAN /\ g_caps \in BOOLEAN
    /\ g_shift \in BOOLEAN /\ g_ctrl \in BOOLEAN /\ g_alt \in BOOLEAN

KeyboardInv == TypeInv /\ RingInv /\ FlagType /\ PrefixesPaired /\ ModifierInv
----------------------------------------------------------------------------
(***************************************************************************)
(* The ring.                                                               *)
(***************************************************************************)

\* The size of the ring.
LEMMA Size == KBD_BUF_SIZE \in Nat /\ KBD_BUF_SIZE >= 2
BY KeyboardAssumption

\* An index that has run past the end by less than a turn.
LEMMA Wrap ==
    ASSUME NEW a \in 0 .. 2 * KBD_BUF_SIZE - 1
    PROVE  a % KBD_BUF_SIZE = IF a < KBD_BUF_SIZE THEN a ELSE a - KBD_BUF_SIZE
<1>1. CASE a < KBD_BUF_SIZE
  BY <1>1, Size
<1>2. CASE a >= KBD_BUF_SIZE
  BY <1>2, Size
<1>. QED  BY <1>1, <1>2, Size

\* The place behind a slot, the number of keys, and the slot of a key.
After(n) == IF n = KBD_BUF_SIZE - 1 THEN 0 ELSE n + 1
Fill(h, t) == IF h >= t THEN h - t ELSE h + KBD_BUF_SIZE - t
SlotOf(t, i) == IF t + i - 1 < KBD_BUF_SIZE THEN t + i - 1 ELSE t + i - 1 - KBD_BUF_SIZE

LEMMA RingIndices ==
    ASSUME NEW h \in Slots, NEW t \in Slots
    PROVE  /\ (h + 1) % KBD_BUF_SIZE = After(h)
           /\ (h + KBD_BUF_SIZE - t) % KBD_BUF_SIZE = Fill(h, t)
           /\ \A i \in 1 .. KBD_BUF_SIZE : (t + i - 1) % KBD_BUF_SIZE = SlotOf(t, i)
           /\ After(h) \in Slots /\ Fill(h, t) \in Slots
           /\ \A i \in 1 .. KBD_BUF_SIZE : SlotOf(t, i) \in Slots
<1>. USE Size DEF Slots
<1>1. (h + 1) % KBD_BUF_SIZE = After(h)
  <2>. DEFINE a == h + 1
  <2>1. a \in 0 .. 2 * KBD_BUF_SIZE - 1  OBVIOUS
  <2>2. a % KBD_BUF_SIZE = IF a < KBD_BUF_SIZE THEN a ELSE a - KBD_BUF_SIZE
    BY ONLY <2>1, Wrap
  <2>. QED  BY <2>2 DEF After
<1>2. (h + KBD_BUF_SIZE - t) % KBD_BUF_SIZE = Fill(h, t)
  <2>. DEFINE a == h + KBD_BUF_SIZE - t
  <2>1. a \in 0 .. 2 * KBD_BUF_SIZE - 1  OBVIOUS
  <2>2. a % KBD_BUF_SIZE = IF a < KBD_BUF_SIZE THEN a ELSE a - KBD_BUF_SIZE
    BY ONLY <2>1, Wrap
  <2>. QED  BY <2>2 DEF Fill
<1>3. ASSUME NEW i \in 1 .. KBD_BUF_SIZE PROVE (t + i - 1) % KBD_BUF_SIZE = SlotOf(t, i)
  <2>. DEFINE a == t + i - 1
  <2>1. a \in 0 .. 2 * KBD_BUF_SIZE - 1  OBVIOUS
  <2>2. a % KBD_BUF_SIZE = IF a < KBD_BUF_SIZE THEN a ELSE a - KBD_BUF_SIZE
    BY ONLY <2>1, Wrap
  <2>. QED  BY <2>2 DEF SlotOf
<1>4. After(h) \in Slots /\ Fill(h, t) \in Slots
  BY DEF After, Fill
<1>5. \A i \in 1 .. KBD_BUF_SIZE : SlotOf(t, i) \in Slots
  BY DEF SlotOf
<1>. QED  BY <1>1, <1>2, <1>3, <1>4, <1>5

\* The queue that a ring stands for, key by key.
LEMMA QueueOf ==
    ASSUME NEW h \in Slots, NEW t \in Slots, NEW buf, NEW n, NEW q,
           n = (h + KBD_BUF_SIZE - t) % KBD_BUF_SIZE,
           q = [i \in 1 .. n |-> buf[(t + i - 1) % KBD_BUF_SIZE]],
           \A i \in 1 .. n : buf[(t + i - 1) % KBD_BUF_SIZE] \in Chars
    PROVE  /\ n = Fill(h, t) /\ n \in Slots
           /\ q \in Seq(Chars) /\ Len(q) = n
           /\ \A i \in 1 .. n : q[i] = buf[SlotOf(t, i)]
<1>1. n = Fill(h, t) /\ n \in Slots
  BY RingIndices
<1>2. q \in [1 .. n -> Chars]
  OBVIOUS
<1>3. n \in Nat
  BY <1>1, Size DEF Slots
<1>4. q \in Seq(Chars)
  BY <1>2, <1>3, SeqDef
<1>5. Len(q) = n
  BY <1>2, <1>3, <1>4, LenProperties
<1>6. ASSUME NEW i \in 1 .. n PROVE q[i] = buf[SlotOf(t, i)]
  <2>1. i \in 1 .. KBD_BUF_SIZE
    BY <1>1, Size DEF Slots
  <2>2. q[i] = buf[(t + i - 1) % KBD_BUF_SIZE]
    OBVIOUS
  <2>. QED  BY <2>1, <2>2, RingIndices
<1>. QED  BY <1>1, <1>4, <1>5, <1>6

\* The queue of the driver's ring, before and after a step.
LEMMA ContentsAre ==
    ASSUME TypeInv, RingInv
    PROVE  /\ Count = Fill(g_head, g_tail) /\ Count \in Slots
           /\ Contents \in Seq(Chars) /\ Len(Contents) = Count
           /\ \A i \in 1 .. Count : Contents[i] = g_buf[SlotOf(g_tail, i)]
<1>1. /\ g_head \in Slots /\ g_tail \in Slots
      /\ Count = (g_head + KBD_BUF_SIZE - g_tail) % KBD_BUF_SIZE
      /\ Contents = [i \in 1 .. Count |-> g_buf[(g_tail + i - 1) % KBD_BUF_SIZE]]
      /\ \A i \in 1 .. Count : g_buf[(g_tail + i - 1) % KBD_BUF_SIZE] \in Chars
  BY DEF TypeInv, RingInv, Count, Contents
<1>. QED  BY ONLY <1>1, QueueOf

LEMMA ContentsWillBe ==
    ASSUME TypeInv', RingInv'
    PROVE  /\ Count' = Fill(g_head', g_tail') /\ Count' \in Slots
           /\ Contents' \in Seq(Chars) /\ Len(Contents') = Count'
           /\ \A i \in 1 .. Count' : Contents'[i] = g_buf'[SlotOf(g_tail', i)]
<1>1. /\ g_head' \in Slots /\ g_tail' \in Slots
      /\ Count' = (g_head' + KBD_BUF_SIZE - g_tail') % KBD_BUF_SIZE
      /\ Contents' = [i \in 1 .. Count' |-> g_buf'[(g_tail' + i - 1) % KBD_BUF_SIZE]]
      /\ \A i \in 1 .. Count' : g_buf'[(g_tail' + i - 1) % KBD_BUF_SIZE] \in Chars
  BY DEF TypeInv, RingInv, Count, Contents
<1>. QED  BY ONLY <1>1, QueueOf

\* buf_push appends the key, or drops it when KBD_BUF_SIZE - 1 keys wait.
LEMMA PushAppends ==
    ASSUME TypeInv, RingInv, NEW k \in Chars, buf_push(k), pc' = pc, c' = c,
           wire' \in Seq(Bytes)
    PROVE  /\ TypeInv' /\ RingInv'
           /\ \/ Len(Contents) = KBD_BUF_SIZE - 1 /\ Contents' = Contents
              \/ Len(Contents) < KBD_BUF_SIZE - 1 /\ Contents' = Append(Contents, k)
<1>. USE Size
<1>h. g_head \in Slots /\ g_tail \in Slots
  BY DEF TypeInv
<1>0. (g_head + 1) % KBD_BUF_SIZE = After(g_head) /\ After(g_head) \in Slots
  BY ONLY <1>h, RingIndices
<1>1. CASE After(g_head) = g_tail
  <2>1. UNCHANGED ring
    BY <1>0, <1>1 DEF buf_push
  <2>2. Count = KBD_BUF_SIZE - 1
    BY <1>h, <1>1, ContentsAre DEF Fill, After, Slots
  <2>3. TypeInv' /\ RingInv' /\ Contents' = Contents
    BY <2>1 DEF ring, TypeInv, RingInv, Contents, Count
  <2>. QED  BY <2>2, <2>3, ContentsAre
<1>2. CASE After(g_head) # g_tail
  <2>1. /\ g_buf' = [g_buf EXCEPT ![g_head] = k]
        /\ g_head' = After(g_head) /\ g_tail' = g_tail
    BY <1>0, <1>2 DEF buf_push
  <2>2. TypeInv'
    BY <1>0, <2>1 DEF TypeInv
  <2>3. Fill(g_head, g_tail) < KBD_BUF_SIZE - 1
        /\ Fill(After(g_head), g_tail) = Fill(g_head, g_tail) + 1
    BY <1>h, <1>2 DEF Fill, After, Slots
  <2>4. Count' = Fill(After(g_head), g_tail)
    BY <2>1, <1>0, <1>h, RingIndices DEF Count
  <2>5. ASSUME NEW i \in 1 .. Count' PROVE g_buf'[SlotOf(g_tail, i)] =
                 IF i = Count + 1 THEN k ELSE g_buf[SlotOf(g_tail, i)]
    <3>1. SlotOf(g_tail, i) = g_head <=> i = Fill(g_head, g_tail) + 1
      BY <1>h, <2>3, <2>4 DEF Fill, SlotOf, Slots, After
    <3>2. i \in 1 .. KBD_BUF_SIZE
      BY <1>0, <1>h, <2>3, <2>4, ContentsAre DEF Slots
    <3>3. SlotOf(g_tail, i) \in Slots
      BY ONLY <1>h, <3>2, RingIndices
    <3>. QED  BY <2>1, <3>1, <3>3, ContentsAre DEF TypeInv
  <2>6. \A i \in 1 .. Count' : (g_tail' + i - 1) % KBD_BUF_SIZE = SlotOf(g_tail, i)
    <3>1. Count' \in Slots
      BY <2>4, <1>0, <1>h, RingIndices
    <3>2. \A i \in 1 .. Count' : i \in 1 .. KBD_BUF_SIZE
      BY <3>1 DEF Slots
    <3>. QED  BY <2>1, <3>2, <1>h, RingIndices
  <2>7. \A i \in 1 .. Count' : i # Count + 1 => i \in 1 .. Count
    BY <2>3, <2>4, ContentsAre DEF Slots
  <2>8. RingInv'
    <3>1. \A i \in 1 .. Count : g_buf[SlotOf(g_tail, i)] \in Chars
      BY ContentsAre, ElementOfSeq
    <3>2. \A i \in 1 .. Count' : g_buf'[(g_tail' + i - 1) % KBD_BUF_SIZE] \in Chars
      BY <2>5, <2>6, <2>7, <3>1
    <3>3. pc \in {"read", "advance"} => g_tail' # g_head'
      BY <2>1, <1>2
    <3>4. pc = "advance" => c = g_buf'[g_tail]
      BY <2>1, <1>h DEF RingInv, TypeInv
    <3>. QED  BY <2>1, <3>2, <3>3, <3>4 DEF RingInv
  <2>9. Contents' = Append(Contents, k)
    <3>1. /\ Contents' \in Seq(Chars) /\ Len(Contents') = Count'
          /\ \A i \in 1 .. Count' : Contents'[i] = g_buf'[SlotOf(g_tail, i)]
      BY <2>1, <2>2, <2>8, ContentsWillBe
    <3>2. /\ Append(Contents, k) \in Seq(Chars)
          /\ Len(Append(Contents, k)) = Count + 1
          /\ \A i \in 1 .. Count + 1 : Append(Contents, k)[i] =
                IF i = Count + 1 THEN k ELSE Contents[i]
      BY ContentsAre
    <3>3. Count' = Count + 1
      BY <2>3, <2>4, ContentsAre
    <3>4. ASSUME NEW i \in 1 .. Count' PROVE Contents'[i] = Append(Contents, k)[i]
      BY <2>5, <2>7, <3>1, <3>2, <3>3, ContentsAre
    <3>. QED  BY ONLY <3>1, <3>2, <3>3, <3>4, SeqEqual
  <2>. QED  BY <2>2, <2>3, <2>8, <2>9, ContentsAre
<1>. QED  BY <1>1, <1>2

\* buf_pop's last step takes the oldest key away.
LEMMA PopTakes ==
    ASSUME TypeInv, RingInv, PopAdvance
    PROVE  /\ TypeInv' /\ RingInv'
           /\ Contents # <<>> /\ ret' = Head(Contents) /\ Contents' = Tail(Contents)
<1>. USE Size
<1>h. g_head \in Slots /\ g_tail \in Slots /\ g_tail # g_head
  BY DEF TypeInv, RingInv, PopAdvance
<1>0. (g_tail + 1) % KBD_BUF_SIZE = After(g_tail) /\ After(g_tail) \in Slots
  BY ONLY <1>h, RingIndices
<1>1. g_tail' = After(g_tail) /\ g_head' = g_head /\ g_buf' = g_buf /\ pc' = "test"
  BY <1>0 DEF PopAdvance
<1>2. TypeInv'
  BY <1>0, <1>1 DEF PopAdvance, TypeInv
<1>3. Fill(g_head, g_tail) > 0 /\ Fill(g_head, After(g_tail)) = Fill(g_head, g_tail) - 1
  BY <1>h DEF Fill, After, Slots
<1>4. Count' = Fill(g_head, After(g_tail)) /\ Count' \in Slots
  BY <1>0, <1>1, <1>h, RingIndices DEF Count
<1>5. Count' = Count - 1 /\ Count > 0 /\ Count \in Slots
  BY <1>3, <1>4, ContentsAre
<1>6. ASSUME NEW i \in 1 .. Count'
      PROVE  SlotOf(After(g_tail), i) = SlotOf(g_tail, i + 1) /\ i + 1 \in 1 .. Count
  BY <1>h, <1>4, <1>5 DEF SlotOf, After, Slots
<1>7. \A i \in 1 .. Count' : (g_tail' + i - 1) % KBD_BUF_SIZE = SlotOf(After(g_tail), i)
  <2>1. \A i \in 1 .. Count' : i \in 1 .. KBD_BUF_SIZE
    BY <1>4 DEF Slots
  <2>. QED  BY <1>0, <1>1, <2>1, RingIndices
<1>8. RingInv'
  <2>1. \A i \in 1 .. Count : g_buf[SlotOf(g_tail, i)] \in Chars
    BY ContentsAre, ElementOfSeq
  <2>2. \A i \in 1 .. Count' : g_buf'[(g_tail' + i - 1) % KBD_BUF_SIZE] \in Chars
    BY <1>1, <1>6, <1>7, <2>1
  <2>. QED  BY <1>1, <2>2 DEF RingInv
<1>9. Contents # <<>> /\ ret' = Head(Contents)
  <2>1. SlotOf(g_tail, 1) = g_tail
    BY <1>h DEF SlotOf, Slots
  <2>2. ret' = g_buf[g_tail]
    BY DEF PopAdvance, RingInv
  <2>3. Contents \in Seq(Chars) /\ Len(Contents) = Count /\ 1 \in 1 .. Count
        /\ Contents[1] = g_buf[g_tail]
    BY <1>5, <2>1, ContentsAre DEF Slots
  <2>4. Contents # <<>>
    BY <2>3
  <2>. QED  BY <2>2, <2>3, <2>4
<1>10. Contents' = Tail(Contents)
  <2>1. /\ Contents' \in Seq(Chars) /\ Len(Contents') = Count'
        /\ \A i \in 1 .. Count' : Contents'[i] = g_buf'[SlotOf(g_tail', i)]
    BY <1>2, <1>8, ContentsWillBe
  <2>2. /\ Contents \in Seq(Chars) /\ Len(Contents) = Count
        /\ \A i \in 1 .. Count : Contents[i] = g_buf[SlotOf(g_tail, i)]
    BY ContentsAre
  <2>3. /\ Tail(Contents) \in Seq(Chars) /\ Len(Tail(Contents)) = Count'
        /\ \A i \in 1 .. Count' : Tail(Contents)[i] = Contents[i + 1]
    BY <1>5, <1>9, <2>2, HeadTailProperties
  <2>4. ASSUME NEW i \in 1 .. Count' PROVE Contents'[i] = Tail(Contents)[i]
    BY <1>1, <1>6, <2>1, <2>2, <2>3
  <2>. QED  BY ONLY <2>1, <2>3, <2>4, SeqEqual
<1>. QED  BY <1>2, <1>8, <1>9, <1>10

\* Every character the handler pushes is one of Chars.
LEMMA MeaningIsChar ==
    ASSUME NEW x \in Codes
    PROVE  /\ arrows[x] # NoChar => arrows[x] \in Chars
           /\ CharOf(x) # NoChar => CharOf(x) \in Chars
<1>1. /\ arrows[x] # NoChar => arrows[x] \in Chars
      /\ keymap_lower[x] # NoChar => keymap_lower[x] \in Chars
      /\ keymap_upper[x] # NoChar => keymap_upper[x] \in Chars
  BY DEF Chars
<1>2. "^A" \in Chars
  BY DEF Chars, NoChar
<1>. QED  BY <1>1, <1>2 DEF CharOf

\* The byte the handler reads.
LEMMA HeadByte ==
    ASSUME TypeInv, wire # <<>>
    PROVE  /\ Head(wire) \in Bytes /\ Tail(wire) \in Seq(Bytes)
           /\ Head(wire) # Prefix => Head(wire).code \in Codes
                                     /\ Head(wire).released \in BOOLEAN
<1>1. Head(wire) \in Bytes /\ Tail(wire) \in Seq(Bytes)
  BY HeadTailProperties DEF TypeInv
<1>. QED  BY <1>1 DEF Bytes

\* A step that leaves the ring and the reader alone.
LEMMA RingFrame ==
    ASSUME TypeInv, RingInv, UNCHANGED <<ring, pc, c>>, wire' \in Seq(Bytes)
    PROVE  TypeInv' /\ RingInv' /\ Contents' = Contents
BY DEF ring, TypeInv, RingInv, Contents, Count

\* keyboard_handler pushes the meaning of the byte, or leaves the ring alone
\* when it has none.
LEMMA HandlerRing ==
    ASSUME TypeInv, RingInv, keyboard_handler
    PROVE  /\ TypeInv' /\ RingInv' /\ ret' = ret
           /\ \/ Contents' = Contents /\ (Typed => Len(Contents) = KBD_BUF_SIZE - 1)
              \/ /\ Meaning(Head(wire)) \in Chars /\ Len(Contents) < KBD_BUF_SIZE - 1
                 /\ Contents' = Append(Contents, Meaning(Head(wire)))
<1>. DEFINE sc == Head(wire)
<1>0. /\ wire # <<>> /\ wire' = Tail(wire) /\ pc' = pc /\ c' = c /\ ret' = ret
      /\ wire' \in Seq(Bytes)
  BY HeadByte DEF keyboard_handler, reader
<1>1. sc # Prefix => sc.code \in Codes /\ sc.released \in BOOLEAN
  BY <1>0, HeadByte
<1>2. ASSUME UNCHANGED ring, ~Typed
      PROVE  TypeInv' /\ RingInv' /\ Contents' = Contents
  BY <1>0, <1>2, RingFrame
<1>3. ASSUME Meaning(sc) \in Chars, buf_push(Meaning(sc))
      PROVE  /\ TypeInv' /\ RingInv'
             /\ \/ Len(Contents) = KBD_BUF_SIZE - 1 /\ Contents' = Contents
                \/ /\ Len(Contents) < KBD_BUF_SIZE - 1
                   /\ Contents' = Append(Contents, Meaning(sc))
  BY ONLY <1>0, <1>3, TypeInv, RingInv, PushAppends
<1>4. CASE HandlePrefix(sc)
  BY <1>0, <1>2, <1>4 DEF HandlePrefix, Typed
<1>5. CASE HandleExtended(sc)
  <2>1. Meaning(sc) = arrows[sc.code] /\ sc # Prefix
    BY <1>5 DEF HandleExtended, Meaning
  <2>2. CASE sc.released \/ arrows[sc.code] = NoChar
    BY <1>0, <1>2, <1>5, <2>1, <2>2 DEF HandleExtended, Typed
  <2>3. CASE ~(sc.released \/ arrows[sc.code] = NoChar)
    <3>1. Meaning(sc) \in Chars
      BY <1>1, <2>1, <2>3, MeaningIsChar
    <3>2. buf_push(Meaning(sc))
      BY <1>5, <2>1, <2>3 DEF HandleExtended
    <3>. QED  BY <1>0, <1>3, <3>1, <3>2
  <2>. QED  BY <2>2, <2>3
<1>6. CASE HandleModifier(sc)
  <2>1. CharOf(sc.code) = NoChar
    BY <1>1, <1>6 DEF HandleModifier, CharOf, keymap_lower, keymap_upper, NoChar
  <2>2. ~Typed
    BY <1>6, <2>1 DEF HandleModifier, Typed, Meaning
  <2>. QED  BY <1>0, <1>2, <1>6, <2>2 DEF HandleModifier
<1>7. CASE HandlePlain(sc)
  <2>1. Meaning(sc) = CharOf(sc.code) /\ sc # Prefix
    BY <1>7 DEF HandlePlain, Meaning
  <2>2. CASE sc.released \/ CharOf(sc.code) = NoChar
    BY <1>0, <1>2, <1>7, <2>1, <2>2 DEF HandlePlain, Typed
  <2>3. CASE ~(sc.released \/ CharOf(sc.code) = NoChar)
    <3>1. Meaning(sc) \in Chars
      BY <1>1, <2>1, <2>3, MeaningIsChar
    <3>2. buf_push(Meaning(sc))
      BY <1>7, <2>1, <2>3 DEF HandlePlain
    <3>. QED  BY <1>0, <1>3, <3>1, <3>2
  <2>. QED  BY <2>2, <2>3
<1>. QED  BY <1>4, <1>5, <1>6, <1>7 DEF keyboard_handler

\* The bytes of a key: its code, behind a prefix when it is an extended key.
LEMMA SendBytes ==
    ASSUME TypeInv, NEW k \in PhysKeys, NEW r \in BOOLEAN
    PROVE  LET b == [code |-> Code[k], released |-> r]
               n == Len(wire)
               s == Send(k, r)
           IN  /\ s \in Seq(Bytes) /\ b # Prefix /\ n \in Nat
               /\ \A i \in 1 .. n : s[i] = wire[i]
               /\ k \in Extended => Len(s) = n + 2 /\ s[n + 1] = Prefix /\ s[n + 2] = b
               /\ k \notin Extended => Len(s) = n + 1 /\ s[n + 1] = b
<1>. DEFINE b == [code |-> Code[k], released |-> r]
<1>1. Code[k] \in Codes
  BY KeyboardAssumption DEF Codes
<1>2. b \in Bytes /\ Prefix \in Bytes
  BY <1>1 DEF Bytes
<1>3. b # Prefix
  <2>1. "E0" \notin Codes
    BY DEF Codes, Code
  <2>. QED  BY <1>1, <2>1 DEF Prefix
<1>4. wire \in Seq(Bytes) /\ Len(wire) \in Nat
  BY DEF TypeInv
<1>. HIDE DEF b
<1>5. CASE k \in Extended
  <2>1. Send(k, r) = wire \o <<Prefix, b>>
    BY <1>5 DEF Send, b
  <2>2. <<Prefix, b>> \in Seq(Bytes) /\ Len(<<Prefix, b>>) = 2
        /\ <<Prefix, b>>[1] = Prefix /\ <<Prefix, b>>[2] = b
    BY <1>2
  <2>3. /\ wire \o <<Prefix, b>> \in Seq(Bytes)
        /\ Len(wire \o <<Prefix, b>>) = Len(wire) + 2
        /\ \A i \in 1 .. Len(wire) + 2 : (wire \o <<Prefix, b>>)[i] =
              IF i <= Len(wire) THEN wire[i] ELSE <<Prefix, b>>[i - Len(wire)]
    BY ONLY <1>4, <2>2, ConcatProperties
  <2>. QED  BY <1>3, <1>4, <1>5, <2>1, <2>2, <2>3 DEF b
<1>6. CASE k \notin Extended
  <2>1. Send(k, r) = Append(wire, b)
    BY <1>6 DEF Send, b
  <2>. QED  BY <1>2, <1>3, <1>4, <1>6, <2>1 DEF b
<1>. QED  BY <1>5, <1>6

\* A step of any kind, seen from the queue.
LEMMA RingStep ==
    ASSUME TypeInv, RingInv, [Next]_vars
    PROVE  /\ TypeInv' /\ RingInv'
           /\ [KQ!QNext]_<<Contents, ret>>
           /\ Typed => \/ Contents' = Append(Contents, Meaning(Head(wire)))
                       \/ Len(Contents) = KBD_BUF_SIZE - 1 /\ Contents' = Contents
<1>1. CASE UNCHANGED vars
  <2>1. ~Typed
    <3>1. wire # <<>> => wire' # Tail(wire)
      BY <1>1, HeadTailProperties DEF TypeInv, vars
    <3>. QED  BY <3>1 DEF Typed
  <2>2. UNCHANGED <<ring, pc, c>> /\ ret' = ret /\ wire' \in Seq(Bytes)
    BY <1>1 DEF vars, reader, TypeInv
  <2>. QED  BY <2>1, <2>2, RingFrame
<1>2. ASSUME NEW k \in PhysKeys, Press(k) \/ Lift(k)
      PROVE  TypeInv' /\ RingInv' /\ Contents' = Contents /\ ret' = ret /\ ~Typed
  <2>1. PICK r \in BOOLEAN : wire' = Send(k, r)
    BY <1>2 DEF Press, Lift
  <2>2. wire' \in Seq(Bytes) /\ Len(wire') > Len(wire) /\ Len(wire) \in Nat
    <3>1. /\ Send(k, r) \in Seq(Bytes) /\ Len(wire) \in Nat
          /\ Len(Send(k, r)) = Len(wire) + 2 \/ Len(Send(k, r)) = Len(wire) + 1
      BY SendBytes, Zenon
    <3>. QED  BY ONLY <2>1, <3>1
  <2>3. wire # <<>> => wire' # Tail(wire)
    BY <2>2, HeadTailProperties DEF TypeInv
  <2>4. UNCHANGED <<ring, pc, c>> /\ ret' = ret
    BY <1>2 DEF Press, Lift, reader
  <2>. QED  BY <2>2, <2>3, <2>4, RingFrame DEF Typed
<1>3. CASE keyboard_handler
  <2>1. CASE Contents' = Contents /\ (Typed => Len(Contents) = KBD_BUF_SIZE - 1)
    BY <1>3, <2>1, HandlerRing
  <2>2. CASE /\ Meaning(Head(wire)) \in Chars /\ Len(Contents) < KBD_BUF_SIZE - 1
             /\ Contents' = Append(Contents, Meaning(Head(wire)))
    <3>1. ret' = ret
      BY <1>3, HandlerRing
    <3>2. KQ!Put(Meaning(Head(wire)))
      BY <2>2, <3>1 DEF KQ!Put
    <3>3. KQ!QNext
      BY <2>2, <3>2 DEF KQ!QNext
    <3>. QED  BY <1>3, <2>2, <3>3, HandlerRing
  <2>. QED  BY <1>3, <2>1, <2>2, HandlerRing
<1>read. ASSUME PopTest \/ PopRead \/ PopAdvance PROVE ~Typed
  <2>1. wire' = wire
    BY <1>read DEF PopTest, PopRead, PopAdvance
  <2>2. wire # <<>> => wire # Tail(wire)
    BY HeadTailProperties DEF TypeInv
  <2>. QED  BY <2>1, <2>2 DEF Typed
<1>4. CASE PopTest
  <2>1. TypeInv' /\ RingInv' /\ Contents' = Contents
    BY <1>4 DEF PopTest, ring, TypeInv, RingInv, Contents, Count
  <2>2. CASE ret' = ret
    BY <1>read, <1>4, <2>1, <2>2
  <2>3. CASE g_tail = g_head /\ ret' = NoKey
    <3>1. Len(Contents) = 0
      BY <2>3, Size, ContentsAre DEF Fill, TypeInv, Slots
    <3>2. Contents = <<>>
      BY <3>1, ContentsAre, EmptySeq
    <3>3. KQ!TakeNothing
      BY <2>1, <2>3, <3>2 DEF KQ!TakeNothing, KQ!NoKey, NoKey
    <3>. QED  BY <1>read, <1>4, <2>1, <3>3 DEF KQ!QNext
  <2>. QED  BY <1>4, <2>2, <2>3 DEF PopTest
<1>5. CASE PopRead
  <2>1. TypeInv' /\ RingInv' /\ Contents' = Contents /\ ret' = ret
    BY <1>5 DEF PopRead, ring, TypeInv, RingInv, Contents, Count
  <2>. QED  BY <1>read, <1>5, <2>1
<1>6. CASE PopAdvance
  <2>1. KQ!Take
    BY <1>6, PopTakes DEF KQ!Take
  <2>. QED  BY <1>read, <1>6, <2>1, PopTakes DEF KQ!QNext
<1>. QED  BY <1>1, <1>2, <1>3, <1>4, <1>5, <1>6 DEF Next

\* The ring is empty at first.
LEMMA RingInit == Init => TypeInv /\ RingInv /\ KQ!QInit
<1>. SUFFICES ASSUME Init PROVE TypeInv /\ RingInv /\ KQ!QInit  OBVIOUS
<1>1. TypeInv
  BY Size DEF Init, TypeInv, Slots
<1>2. g_head \in Slots /\ g_tail \in Slots /\ Fill(g_head, g_tail) = 0 /\ pc = "test"
  BY Size DEF Init, Slots, Fill
<1>3. Count = 0
  BY <1>2, RingIndices DEF Count
<1>4. RingInv
  BY <1>2, <1>3 DEF RingInv
<1>5. Contents = <<>>
  BY <1>1, <1>3, <1>4, ContentsAre, EmptySeq
<1>. QED  BY <1>1, <1>4, <1>5 DEF Init, KQ!QInit, KQ!NoKey, NoKey

\* The ring is well formed and the reader's view of it stays true, whatever
\* point of buf_pop an interrupt hits.
THEOREM RingInvariant == Spec => [](TypeInv /\ RingInv)
<1>1. TypeInv /\ RingInv /\ [Next]_vars => (TypeInv /\ RingInv)'
  BY RingStep
<1>. QED  BY RingInit, <1>1, PTL DEF Spec

\* The driver implements the queue it promises (KeyQueue): no key is lost once
\* queued, read twice or out of order, for every size of the ring.
THEOREM RefinesKeyQueue == Spec => ImplementsKeyQueue
<1>1. TypeInv /\ RingInv /\ [Next]_vars => [KQ!QNext]_<<Contents, ret>>
  BY RingStep
<1>. QED  BY RingInit, RingInvariant, <1>1, PTL DEF Spec, ImplementsKeyQueue, KQ!QSpec

\* buf_push drops a key only when KBD_BUF_SIZE - 1 keys wait.
THEOREM DropsOnlyWhenFull == Spec => DropOnlyWhenFull
<1>. DEFINE A == Typed => \/ Contents' = Append(Contents, Meaning(Head(wire)))
                          \/ Len(Contents) = KBD_BUF_SIZE - 1 /\ Contents' = Contents
<1>1. TypeInv /\ RingInv /\ [Next]_vars => [A]_vars
  BY RingStep
<1>2. DropOnlyWhenFull <=> [][A]_vars
  BY PTL DEF DropOnlyWhenFull
<1>. QED  BY RingInvariant, <1>1, <1>2, PTL DEF Spec

----------------------------------------------------------------------------
(***************************************************************************)
(* The prefix and the modifiers.                                           *)
(***************************************************************************)

\* A key adds at most one plain byte, at the end; an extended key adds none.
LEMMA SendPending ==
    ASSUME TypeInv, PrefixesPaired, NEW k \in PhysKeys, NEW r \in BOOLEAN,
           wire' = Send(k, r), g_extended' = g_extended
    PROVE  /\ PrefixesPaired'
           /\ \A i \in 1 .. Len(wire) : wire'[i] = wire[i]
           /\ \A G : "E0" \notin G =>
                IF k \notin Extended /\ Code[k] \in G
                THEN /\ Pending(G)' = Pending(G) \cup {Len(wire) + 1}
                     /\ wire'[Len(wire) + 1].released = r
                ELSE Pending(G)' = Pending(G)
<1>n. PICK n \in Nat : n = Len(wire)
  BY DEF TypeInv
<1>. DEFINE b == [code |-> Code[k], released |-> r]
<1>0. /\ wire' \in Seq(Bytes) /\ b # Prefix /\ n \in Nat
      /\ \A i \in 1 .. n : wire'[i] = wire[i]
      /\ k \in Extended => Len(wire') = n + 2 /\ wire'[n + 1] = Prefix /\ wire'[n + 2] = b
      /\ k \notin Extended => Len(wire') = n + 1 /\ wire'[n + 1] = b
  BY <1>n, SendBytes, Zenon
<1>d. DOMAIN wire = 1 .. n /\ DOMAIN wire' = 1 .. Len(wire') /\ Len(wire') \in {n + 1, n + 2}
  BY <1>n, <1>0 DEF TypeInv
<1>b. b.code = Code[k] /\ b.released = r
  OBVIOUS
<1>. HIDE DEF b
<1>1. /\ \A i \in 0 .. n : IsPrefix(i)' <=> IsPrefix(i)
      /\ ~IsPrefix(n)
      /\ k \in Extended => IsPrefix(n + 1)' /\ ~IsPrefix(n + 2)'
      /\ k \notin Extended => ~IsPrefix(n + 1)'
  BY <1>n, <1>0 DEF IsPrefix, PrefixesPaired
<1>2. PrefixesPaired'
  BY <1>n, <1>0, <1>1 DEF PrefixesPaired
<1>3. ASSUME NEW G, "E0" \notin G
      PROVE  IF k \notin Extended /\ Code[k] \in G
             THEN /\ Pending(G)' = Pending(G) \cup {n + 1}
                  /\ wire'[n + 1].released = r
             ELSE Pending(G)' = Pending(G)
  <2>1. \A i \in 1 .. n : Plain(i, G)' <=> Plain(i, G)
    BY <1>0, <1>1 DEF Plain
  <2>2. k \in Extended => ~Plain(n + 1, G)' /\ ~Plain(n + 2, G)'
    BY <1>0, <1>1, <1>3 DEF Plain, Prefix
  <2>3. k \notin Extended => (Plain(n + 1, G)' <=> Code[k] \in G)
    BY <1>0, <1>1, <1>b DEF Plain
  <2>4. \A i : i \in Pending(G)' <=> i \in DOMAIN wire' /\ Plain(i, G)'
    BY DEF Pending
  <2>5. \A i : i \in Pending(G) <=> i \in 1 .. n /\ Plain(i, G)
    BY <1>d DEF Pending
  <2>6. CASE k \in Extended
    <3>1. \A i : i \in DOMAIN wire' <=> i \in 1 .. n \/ i = n + 1 \/ i = n + 2
      BY <1>0, <1>d, <2>6
    <3>2. \A i : i \in Pending(G)' <=> i \in Pending(G)
      BY <2>1, <2>2, <2>4, <2>5, <2>6, <3>1
    <3>3. Pending(G)' = Pending(G)
      BY ONLY <3>2
    <3>. QED  BY <2>6, <3>3
  <2>7. CASE k \notin Extended
    <3>1. \A i : i \in DOMAIN wire' <=> i \in 1 .. n \/ i = n + 1
      BY <1>0, <1>d, <2>7
    <3>2. \A i : i \in Pending(G)' <=>
                 i \in Pending(G) \/ (Code[k] \in G /\ i = n + 1)
      BY <2>1, <2>3, <2>4, <2>5, <2>7, <3>1
    <3>3. /\ Code[k] \in G => Pending(G)' = Pending(G) \cup {n + 1}
          /\ Code[k] \notin G => Pending(G)' = Pending(G)
      BY ONLY <3>2
    <3>. QED  BY <1>0, <1>b, <2>7, <3>3
  <2>. QED  BY <2>6, <2>7
<1>. QED  BY <1>n, <1>0, <1>2, <1>3

\* What a handled byte does to the flags.
HeadPlain(G) == Head(wire) # Prefix /\ ~g_extended /\ Head(wire).code \in G
LEMMA HandlerFlags ==
    ASSUME TypeInv, FlagType, keyboard_handler
    PROVE  /\ FlagType'
           /\ g_extended' <=> Head(wire) = Prefix
           /\ g_ctrl' <=> IF HeadPlain({"1D"}) THEN ~Head(wire).released ELSE g_ctrl
           /\ g_alt' <=> IF HeadPlain({"38"}) THEN ~Head(wire).released ELSE g_alt
           /\ g_shift' <=> IF HeadPlain({"2A", "36"}) THEN ~Head(wire).released ELSE g_shift
<1>. DEFINE sc == Head(wire)
<1>. USE DEF FlagType, HeadPlain
<1>1. CASE HandlePrefix(sc)
  BY <1>1 DEF HandlePrefix, modifiers
<1>2. CASE HandleExtended(sc)
  BY <1>2 DEF HandleExtended, modifiers
<1>3. CASE HandleModifier(sc)
  BY <1>3 DEF HandleModifier
<1>4. CASE HandlePlain(sc)
  BY <1>4 DEF HandlePlain, modifiers
<1>. QED  BY <1>1, <1>2, <1>3, <1>4 DEF keyboard_handler

\* The places of the wire move up by one when a byte is handled.
LEMMA HandlerPending ==
    ASSUME TypeInv, FlagType, PrefixesPaired, keyboard_handler
    PROVE  /\ PrefixesPaired'
           /\ \A i \in DOMAIN wire' : i + 1 \in DOMAIN wire /\ wire'[i] = wire[i + 1]
           /\ \A G : "E0" \notin G =>
                /\ HeadPlain(G) <=> 1 \in Pending(G)
                /\ \A i \in DOMAIN wire' : i \in Pending(G)' <=> i + 1 \in Pending(G)
                /\ \A i \in Pending(G) : i = 1 \/ i - 1 \in Pending(G)'
<1>. DEFINE n == Len(wire)
<1>0. /\ wire \in Seq(Bytes) /\ wire # <<>> /\ wire' = Tail(wire)
      /\ n \in Nat \ {0} /\ Head(wire) = wire[1]
  BY EmptySeq DEF TypeInv, keyboard_handler
<1>1. /\ wire' \in Seq(Bytes) /\ Len(wire') = n - 1
      /\ \A i \in 1 .. n - 1 : wire'[i] = wire[i + 1]
  BY <1>0, HeadTailProperties
<1>d. DOMAIN wire = 1 .. n /\ DOMAIN wire' = 1 .. n - 1
  BY <1>0, <1>1
<1>2. \A i \in 0 .. n - 1 : IsPrefix(i)' <=> IsPrefix(i + 1)
  <2>1. IsPrefix(0)' <=> IsPrefix(1)
    BY <1>0, HandlerFlags DEF IsPrefix
  <2>2. \A i \in 1 .. n - 1 : IsPrefix(i)' <=> IsPrefix(i + 1)
    BY <1>0, <1>1 DEF IsPrefix
  <2>. QED  BY <1>0, <2>1, <2>2
<1>3. PrefixesPaired'
  BY <1>0, <1>1, <1>2 DEF PrefixesPaired
<1>4. ASSUME NEW G, "E0" \notin G
      PROVE  /\ HeadPlain(G) <=> 1 \in Pending(G)
             /\ \A i \in 1 .. n - 1 : i \in Pending(G)' <=> i + 1 \in Pending(G)
             /\ \A i \in Pending(G) : i = 1 \/ i - 1 \in Pending(G)'
  <2>1. Prefix.code \notin G
    BY <1>4 DEF Prefix
  <2>2. HeadPlain(G) <=> 1 \in Pending(G)
    BY <1>0, <1>d, <2>1 DEF HeadPlain, Pending, Plain, IsPrefix
  <2>3. \A i \in 1 .. n - 1 : Plain(i, G)' <=> Plain(i + 1, G)
    BY <1>0, <1>1, <1>2 DEF Plain
  <2>4. \A i \in 1 .. n - 1 : i \in Pending(G)' <=> i + 1 \in Pending(G)
    BY <1>0, <1>d, <2>3 DEF Pending
  <2>5. \A i \in Pending(G) : i \in 1 .. n
    BY <1>d DEF Pending
  <2>6. ASSUME NEW i \in Pending(G), i # 1 PROVE i - 1 \in Pending(G)'
    <3>1. i - 1 \in 1 .. n - 1 /\ (i - 1) + 1 = i
      BY <1>0, <2>5, <2>6
    <3>. QED  BY <2>4, <3>1
  <2>. QED  BY <2>2, <2>4, <2>6
<1>. QED  BY <1>0, <1>1, <1>d, <1>3, <1>4

\* Which byte is the last of its kind after a key, and after a handled byte.
LEMMA LastAfterSend ==
    ASSUME TypeInv, PrefixesPaired, NEW k \in PhysKeys, NEW r \in BOOLEAN,
           wire' = Send(k, r), g_extended' = g_extended, NEW G, "E0" \notin G
    PROVE  IF k \notin Extended /\ Code[k] \in G
           THEN /\ Pending(G)' # {}
                /\ \A i : LastOf(i, G)' => (wire'[i].released <=> r)
           ELSE /\ Pending(G)' = {} => Pending(G) = {}
                /\ \A i : LastOf(i, G)' => LastOf(i, G) /\ wire'[i] = wire[i]
<1>1. \A i \in Pending(G) : i \in 1 .. Len(wire) /\ wire'[i] = wire[i]
  BY SendPending DEF Pending, TypeInv
<1>2. CASE k \notin Extended /\ Code[k] \in G
  <2>1. /\ Pending(G)' = Pending(G) \cup {Len(wire) + 1}
        /\ wire'[Len(wire) + 1].released = r
    BY <1>2, SendPending
  <2>2. ASSUME NEW i, LastOf(i, G)' PROVE i = Len(wire) + 1
    <3>1. i \in Pending(G)' /\ Len(wire) + 1 <= i
      BY <2>1, <2>2 DEF LastOf
    <3>. QED  BY <1>1, <2>1, <3>1 DEF TypeInv
  <2>. QED  BY <1>2, <2>1, <2>2
<1>3. CASE ~(k \notin Extended /\ Code[k] \in G)
  <2>1. Pending(G)' = Pending(G)
    BY <1>3, SendPending
  <2>2. \A i : LastOf(i, G)' <=> LastOf(i, G)
    BY <2>1 DEF LastOf
  <2>3. \A i : LastOf(i, G) => i \in Pending(G)
    BY DEF LastOf
  <2>. QED  BY <1>1, <1>3, <2>1, <2>2, <2>3
<1>. QED  BY <1>2, <1>3

LEMMA LastAfterHandler ==
    ASSUME TypeInv, FlagType, PrefixesPaired, keyboard_handler, NEW G, "E0" \notin G
    PROVE  /\ HeadPlain(G) /\ Pending(G)' = {} => LastOf(1, G)
           /\ ~HeadPlain(G) /\ Pending(G)' = {} => Pending(G) = {}
           /\ \A i : LastOf(i, G)' => /\ i + 1 \in DOMAIN wire /\ LastOf(i + 1, G)
                                      /\ wire'[i] = wire[i + 1]
<1>0. /\ HeadPlain(G) <=> 1 \in Pending(G)
      /\ \A i \in DOMAIN wire' : i \in Pending(G)' <=> i + 1 \in Pending(G)
      /\ \A i \in Pending(G) : i = 1 \/ i - 1 \in Pending(G)'
      /\ \A i \in DOMAIN wire' : i + 1 \in DOMAIN wire /\ wire'[i] = wire[i + 1]
  BY HandlerPending
<1>1. /\ \A i \in Pending(G) : i \in Nat
      /\ \A i \in Pending(G)' : i \in DOMAIN wire' /\ i \in Nat /\ i >= 1
  <2>1. wire \in Seq(Bytes) /\ wire' \in Seq(Bytes)
    BY HeadByte DEF TypeInv, keyboard_handler
  <2>. QED  BY <2>1 DEF Pending
<1>2. ASSUME HeadPlain(G), Pending(G)' = {} PROVE LastOf(1, G)
  BY <1>0, <1>1, <1>2 DEF LastOf
<1>3. ASSUME ~HeadPlain(G), Pending(G)' = {} PROVE Pending(G) = {}
  BY <1>0, <1>3
<1>4. ASSUME NEW i, LastOf(i, G)'
      PROVE  i + 1 \in DOMAIN wire /\ LastOf(i + 1, G) /\ wire'[i] = wire[i + 1]
  <2>1. i \in Pending(G)' /\ \A j \in Pending(G)' : j <= i
    BY <1>4 DEF LastOf
  <2>2. i + 1 \in Pending(G) /\ i + 1 \in DOMAIN wire /\ wire'[i] = wire[i + 1]
    BY <1>0, <1>1, <2>1
  <2>3. ASSUME NEW j \in Pending(G) PROVE j <= i + 1
    BY <1>0, <1>1, <2>1
  <2>. QED  BY <2>2, <2>3 DEF LastOf
<1>. QED  BY <1>2, <1>3, <1>4

\* The keys behind the codes of the modifiers, when no prefix precedes them.
LEMMA ModifierKeys ==
    ASSUME NEW k \in PhysKeys
    PROVE  /\ k \notin Extended /\ Code[k] = "1D" <=> k = "lctrl"
           /\ k \notin Extended /\ Code[k] = "38" <=> k = "lalt"
           /\ k \notin Extended /\ Code[k] \in {"2A", "36"} <=> k \in {"lshift", "rshift"}
BY KeyboardAssumption DEF Code, Extended

\* A key pressed or lifted keeps the invariant of the modifiers.
LEMMA KeyModifiers ==
    ASSUME KeyboardInv, NEW k \in PhysKeys, NEW r \in BOOLEAN, wire' = Send(k, r),
           UNCHANGED <<modifiers, g_extended>>,
           down' = IF r THEN down \ {k} ELSE down \cup {k}
    PROVE  FlagType' /\ PrefixesPaired' /\ ModifierInv'
<1>. USE DEF KeyboardInv
<1>0. ASSUME NEW G, "E0" \notin G
      PROVE  IF k \notin Extended /\ Code[k] \in G
             THEN /\ Pending(G)' # {}
                  /\ \A i : LastOf(i, G)' => (wire'[i].released <=> r)
             ELSE /\ Pending(G)' = {} => Pending(G) = {}
                  /\ \A i : LastOf(i, G)' => LastOf(i, G) /\ wire'[i] = wire[i]
  BY <1>0, LastAfterSend
<1>1. FlagType' /\ PrefixesPaired'
  BY SendPending DEF FlagType, modifiers
<1>2. Settled({"1D"}, g_ctrl, "lctrl" \in down)'
  <2>. DEFINE G == {"1D"}
  <2>1. k \notin Extended /\ Code[k] \in G <=> k = "lctrl"
    BY ModifierKeys
  <2>2. IF k = "lctrl"
        THEN Pending(G)' # {} /\ \A i : LastOf(i, G)' => (wire'[i].released <=> r)
        ELSE /\ Pending(G)' = {} => Pending(G) = {}
             /\ \A i : LastOf(i, G)' => LastOf(i, G) /\ wire'[i] = wire[i]
    BY <1>0, <2>1
  <2>3. \A i : LastOf(i, G) => i \in DOMAIN wire
    BY DEF LastOf, Pending
  <2>4. Settled(G, g_ctrl, "lctrl" \in down) /\ g_ctrl' = g_ctrl
    BY DEF ModifierInv, modifiers
  <2>5. IF k = "lctrl" THEN "lctrl" \in down' <=> ~r
        ELSE "lctrl" \in down' <=> "lctrl" \in down
    OBVIOUS
  <2>. QED  BY ONLY <2>2, <2>3, <2>4, <2>5 DEF Settled
<1>3. Settled({"38"}, g_alt, "lalt" \in down)'
  <2>. DEFINE G == {"38"}
  <2>1. k \notin Extended /\ Code[k] \in G <=> k = "lalt"
    BY ModifierKeys
  <2>2. IF k = "lalt"
        THEN Pending(G)' # {} /\ \A i : LastOf(i, G)' => (wire'[i].released <=> r)
        ELSE /\ Pending(G)' = {} => Pending(G) = {}
             /\ \A i : LastOf(i, G)' => LastOf(i, G) /\ wire'[i] = wire[i]
    BY <1>0, <2>1
  <2>3. \A i : LastOf(i, G) => i \in DOMAIN wire
    BY DEF LastOf, Pending
  <2>4. Settled(G, g_alt, "lalt" \in down) /\ g_alt' = g_alt
    BY DEF ModifierInv, modifiers
  <2>5. IF k = "lalt" THEN "lalt" \in down' <=> ~r
        ELSE "lalt" \in down' <=> "lalt" \in down
    OBVIOUS
  <2>. QED  BY ONLY <2>2, <2>3, <2>4, <2>5 DEF Settled
<1>4. /\ Pending({"2A", "36"})' = {} => (g_shift' => ShiftHeld')
      /\ \A i \in DOMAIN wire' :
            LastOf(i, {"2A", "36"})' => (~wire'[i].released => ShiftHeld')
  <2>. DEFINE G == {"2A", "36"}
  <2>1. k \notin Extended /\ Code[k] \in G <=> k \in {"lshift", "rshift"}
    BY ModifierKeys
  <2>2. IF k \in {"lshift", "rshift"}
        THEN Pending(G)' # {} /\ \A i : LastOf(i, G)' => (wire'[i].released <=> r)
        ELSE /\ Pending(G)' = {} => Pending(G) = {}
             /\ \A i : LastOf(i, G)' => LastOf(i, G) /\ wire'[i] = wire[i]
    BY <1>0, <2>1
  <2>3. \A i : LastOf(i, G) => i \in DOMAIN wire
    BY DEF LastOf, Pending
  <2>4. /\ Pending(G) = {} => (g_shift => ShiftHeld)
        /\ \A i \in DOMAIN wire : LastOf(i, G) => (~wire[i].released => ShiftHeld)
        /\ g_shift' = g_shift
    BY DEF ModifierInv, modifiers
  <2>5. IF k \in {"lshift", "rshift"} THEN ~r => ShiftHeld' ELSE ShiftHeld => ShiftHeld'
    BY DEF ShiftHeld
  <2>. QED  BY ONLY <2>2, <2>3, <2>4, <2>5
<1>. QED  BY <1>1, <1>2, <1>3, <1>4 DEF ModifierInv

\* Each step keeps the invariant of the modifiers.
LEMMA ModifierStep ==
    ASSUME KeyboardInv, [Next]_vars
    PROVE  FlagType' /\ PrefixesPaired' /\ ModifierInv'
<1>. USE DEF KeyboardInv
<1>G. "E0" \notin {"1D"} /\ "E0" \notin {"38"} /\ "E0" \notin {"2A", "36"}
  OBVIOUS
<1>1. CASE UNCHANGED <<modifiers, g_extended, wire, down>>
  BY <1>1 DEF modifiers, FlagType, PrefixesPaired, IsPrefix, ModifierInv, Settled,
              Pending, Plain, LastOf, ShiftHeld
<1>2. ASSUME NEW k \in PhysKeys, Press(k) PROVE FlagType' /\ PrefixesPaired' /\ ModifierInv'
  BY <1>2, KeyModifiers DEF Press
<1>3. ASSUME NEW k \in PhysKeys, Lift(k) PROVE FlagType' /\ PrefixesPaired' /\ ModifierInv'
  BY <1>3, KeyModifiers DEF Lift
<1>4. CASE keyboard_handler
  <2>1. FlagType' /\ PrefixesPaired' /\ down' = down
    BY <1>4, HandlerFlags, HandlerPending DEF keyboard_handler
  <2>2. Head(wire) = wire[1] /\ 1 \in DOMAIN wire
    BY <1>4, EmptySeq DEF TypeInv, keyboard_handler
  <2>h. ASSUME NEW G, "E0" \notin G
        PROVE  /\ HeadPlain(G) /\ Pending(G)' = {} => LastOf(1, G)
               /\ ~HeadPlain(G) /\ Pending(G)' = {} => Pending(G) = {}
               /\ \A i : LastOf(i, G)' => /\ i + 1 \in DOMAIN wire /\ LastOf(i + 1, G)
                                          /\ wire'[i] = wire[i + 1]
    BY <1>4, <2>h, LastAfterHandler
  <2>f. /\ g_ctrl' <=> IF HeadPlain({"1D"}) THEN ~wire[1].released ELSE g_ctrl
        /\ g_alt' <=> IF HeadPlain({"38"}) THEN ~wire[1].released ELSE g_alt
        /\ g_shift' <=> IF HeadPlain({"2A", "36"}) THEN ~wire[1].released ELSE g_shift
    BY <1>4, <2>2, HandlerFlags
  <2>3. Settled({"1D"}, g_ctrl, "lctrl" \in down)'
    <3>. DEFINE G == {"1D"}
    <3>1. Settled(G, g_ctrl, "lctrl" \in down)
      BY DEF ModifierInv
    <3>2. ASSUME Pending(G)' = {} PROVE g_ctrl' <=> "lctrl" \in down
      BY <1>G, <2>2, <2>h, <2>f, <3>1, <3>2 DEF Settled
    <3>3. ASSUME NEW i \in DOMAIN wire', LastOf(i, G)'
          PROVE  ~wire'[i].released <=> "lctrl" \in down
      BY <1>G, <2>h, <3>1, <3>3 DEF Settled
    <3>. QED  BY <2>1, <3>2, <3>3 DEF Settled
  <2>4. Settled({"38"}, g_alt, "lalt" \in down)'
    <3>. DEFINE G == {"38"}
    <3>1. Settled(G, g_alt, "lalt" \in down)
      BY DEF ModifierInv
    <3>2. ASSUME Pending(G)' = {} PROVE g_alt' <=> "lalt" \in down
      BY <1>G, <2>2, <2>h, <2>f, <3>1, <3>2 DEF Settled
    <3>3. ASSUME NEW i \in DOMAIN wire', LastOf(i, G)'
          PROVE  ~wire'[i].released <=> "lalt" \in down
      BY <1>G, <2>h, <3>1, <3>3 DEF Settled
    <3>. QED  BY <2>1, <3>2, <3>3 DEF Settled
  <2>5. /\ Pending({"2A", "36"})' = {} => (g_shift' => ShiftHeld')
        /\ \A i \in DOMAIN wire' : LastOf(i, {"2A", "36"})' => (~wire'[i].released => ShiftHeld')
    <3>. DEFINE G == {"2A", "36"}
    <3>1. /\ Pending(G) = {} => (g_shift => ShiftHeld)
          /\ \A i \in DOMAIN wire : LastOf(i, G) => (~wire[i].released => ShiftHeld)
      BY DEF ModifierInv
    <3>2. ASSUME Pending(G)' = {}, g_shift' PROVE ShiftHeld
      BY <1>G, <2>2, <2>h, <2>f, <3>1, <3>2
    <3>3. ASSUME NEW i \in DOMAIN wire', LastOf(i, G)', ~wire'[i].released
          PROVE  ShiftHeld
      BY <1>G, <2>h, <3>1, <3>3
    <3>4. ShiftHeld' <=> ShiftHeld
      BY <2>1 DEF ShiftHeld
    <3>. QED  BY <3>2, <3>3, <3>4
  <2>. QED  BY <2>1, <2>3, <2>4, <2>5 DEF ModifierInv
<1>5. CASE PopTest \/ PopRead \/ PopAdvance
  BY <1>1, <1>5 DEF PopTest, PopRead, PopAdvance
<1>. QED  BY <1>1, <1>2, <1>3, <1>4, <1>5 DEF Next, vars

\* The whole invariant of the driver, for keys pressed and lifted in any order
\* while older bytes are still unread.
THEOREM KeyboardInvariant == Spec => []KeyboardInv
<1>1. Init => KeyboardInv
  <2>. SUFFICES ASSUME Init PROVE KeyboardInv  OBVIOUS
  <2>1. FlagType
    BY Zenon DEF Init, FlagType
  <2>2. Len(wire) = 0 /\ DOMAIN wire = {} /\ ~g_extended
    BY DEF Init
  <2>3. PrefixesPaired
    BY <2>2 DEF PrefixesPaired, IsPrefix
  <2>4. ModifierInv
    BY <2>2 DEF Init, ModifierInv, Settled, Pending, ShiftHeld
  <2>. QED  BY <2>1, <2>3, <2>4, RingInit DEF KeyboardInv
<1>2. KeyboardInv /\ [Next]_vars => KeyboardInv'
  BY RingStep, ModifierStep DEF KeyboardInv
<1>. QED  BY <1>1, <1>2, PTL DEF Spec

\* When every byte has been handled the modifiers agree with the fingers, for
\* any set of keys and any number held down.
THEOREM ModifiersAgree == Spec => []ModifiersTrackKeys
<1>1. KeyboardInv => ModifiersTrackKeys
  <2>. SUFFICES ASSUME KeyboardInv, wire = <<>>
                PROVE  /\ g_ctrl = ("lctrl" \in down) /\ g_alt = ("lalt" \in down)
                       /\ g_shift => down \cap {"lshift", "rshift"} # {}
                       /\ ~g_extended
    BY DEF ModifiersTrackKeys
  <2>1. Len(wire) = 0 /\ DOMAIN wire = {}
    OBVIOUS
  <2>2. \A G : Pending(G) = {}
    BY <2>1 DEF Pending
  <2>3. ~g_extended
    BY <2>1 DEF KeyboardInv, PrefixesPaired, IsPrefix
  <2>4. /\ g_ctrl <=> "lctrl" \in down
        /\ g_alt <=> "lalt" \in down
        /\ g_shift => down \cap {"lshift", "rshift"} # {}
    BY <2>2 DEF KeyboardInv, ModifierInv, Settled, ShiftHeld
  <2>5. g_ctrl \in BOOLEAN /\ g_alt \in BOOLEAN
    BY DEF KeyboardInv, FlagType
  <2>. QED  BY <2>3, <2>4, <2>5
<1>. QED  BY <1>1, KeyboardInvariant, PTL
=============================================================================
