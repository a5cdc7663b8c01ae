---------------------------- MODULE ShellProofs ----------------------------
(***************************************************************************)
(* Theorems about Shell, for every length of the line and of the history,  *)
(* every set of letters and of commands, and every console: its buffers    *)
(* implement LineEditor; and about Input, for every set of keys, every     *)
(* script, every delay and every sequence of source changes.               *)
(***************************************************************************)
EXTENDS Shell, Input, SequenceTheorems, WellFoundedInduction, TLAPS

(***************************************************************************)
(* The invariant.                                                          *)
(***************************************************************************)

Bytes == Letters \cup {0}
Buffers == [Index -> Bytes]

\* A C string of length n.
EndsAt(buf, n) == n \in Index /\ buf[n] = 0 /\ \A i \in Index : i < n => buf[i] # 0

\* The bytes before pos are letters, whatever follows them.
LineInv ==
    /\ line \in Buffers /\ pos \in Index
    /\ \A i \in Index : i < pos => line[i] # 0

\* Every slot of the ring holds a string, also one that was never written.
HistoryInv ==
    /\ g_history \in [Slots -> Buffers]
    /\ \A s \in Slots : \E i \in Index : g_history[s][i] = 0
    /\ g_hist_count \in 0 .. HISTORY_SIZE /\ g_hist_head \in Slots

\* The arrows stay within the history.
RecallInv == hist_pos \in -1 .. (g_hist_count - 1)

EditorInv == LineInv /\ HistoryInv /\ RecallInv /\ halted \in BOOLEAN
----------------------------------------------------------------------------
LEMMA Sizes ==
    /\ LINE_MAX \in Nat \ {0} /\ HISTORY_SIZE \in Nat \ {0}
    /\ 0 \in Index /\ Index \subseteq Nat /\ 0 \in Slots /\ Slots \subseteq Nat
    /\ Letters \subseteq Nat /\ 0 \notin Letters
BY EditorAssumption DEF Index, Slots

\* A nonempty set of naturals has a least element.
LEMMA LeastNat ==
    ASSUME NEW S \in SUBSET Nat, S # {}
    PROVE  \E s \in S : \A t \in S : s <= t
<1>. DEFINE R == OpToRel(<, Nat)
<1>1. IsWellFoundedOn(R, Nat)
  BY NatLessThanWellFounded
<1>2. \A x, y \in Nat : y < x => <<y, x>> \in R
  BY DEF OpToRel
<1>. HIDE DEF R
<1>3. \E x \in S : \A y \in S : ~ (<<y, x>> \in R)
  BY <1>1, WFMin
<1>4. \E x \in S : \A y \in S : ~ (y < x)
  BY <1>2, <1>3, Zenon
<1>. QED
  BY <1>4

(***************************************************************************)
(* Strings.                                                                *)
(***************************************************************************)

LEMMA HasEnd ==
    ASSUME NEW buf, \E i \in Index : buf[i] = 0
    PROVE  \E n \in Index : EndsAt(buf, n)
<1>. DEFINE ends == {i \in Index : buf[i] = 0}
<1>1. ends \in SUBSET Nat /\ ends # {}
  BY Sizes
<1>2. PICK n \in ends : \A j \in ends : n <= j
  BY <1>1, LeastNat
<1>. QED  BY <1>2, Sizes DEF EndsAt

LEMMA StringIs ==
    ASSUME NEW buf, NEW n, EndsAt(buf, n)
    PROVE  CString(buf) = [k \in 1 .. n |-> buf[k - 1]]
<1>. DEFINE ends == {i \in Index : buf[i] = 0}
            m == CHOOSE i \in ends : \A j \in ends : i <= j
<1>1. n \in ends /\ \A j \in ends : n <= j
  BY Sizes DEF EndsAt
<1>2. m \in ends /\ \A j \in ends : m <= j
  BY <1>1
<1>3. m = n
  <2>1. m <= n /\ n <= m /\ m \in Nat /\ n \in Nat
    BY <1>1, <1>2, Sizes
  <2>. QED  BY <2>1
<1>4. CString(buf) = [k \in 1 .. m |-> buf[k - 1]]
  BY DEF CString
<1>. HIDE DEF m
<1>. QED  BY <1>3, <1>4

\* A string is as long as a line at most, and made of letters.
LEMMA StringType ==
    ASSUME NEW buf \in Buffers, \E i \in Index : buf[i] = 0
    PROVE  /\ CString(buf) \in Seq(Letters) /\ Len(CString(buf)) \in Index
           /\ \A k \in 1 .. Len(CString(buf)) : CString(buf)[k] = buf[k - 1]
           /\ EndsAt(buf, Len(CString(buf)))
<1>1. PICK n \in Index : EndsAt(buf, n)
  BY HasEnd
<1>2. CString(buf) = [k \in 1 .. n |-> buf[k - 1]]
  BY <1>1, StringIs
<1>3. n \in Nat /\ \A k \in 1 .. n : k - 1 \in Index /\ k - 1 < n
  BY Sizes DEF Index
<1>4. \A k \in 1 .. n : buf[k - 1] \in Letters
  BY <1>1, <1>3 DEF EndsAt, Buffers, Bytes
<1>. QED  BY <1>1, <1>2, <1>3, <1>4

(***************************************************************************)
(* The ring of the history.                                                *)
(***************************************************************************)

\* The slot of the i-th oldest of count entries before head.
SlotOf(i, count, head) ==
    IF head - count + i - 1 >= 0 THEN head - count + i - 1
    ELSE head - count + i - 1 + HISTORY_SIZE
NextSlot(head) == IF head = HISTORY_SIZE - 1 THEN 0 ELSE head + 1

LEMMA Wrap ==
    ASSUME NEW a \in 0 .. 3 * HISTORY_SIZE - 1
    PROVE  a % HISTORY_SIZE = IF a < HISTORY_SIZE THEN a
                              ELSE IF a < 2 * HISTORY_SIZE THEN a - HISTORY_SIZE
                              ELSE a - 2 * HISTORY_SIZE
<1>1. CASE a < HISTORY_SIZE
  BY <1>1, Sizes
<1>2. CASE a >= HISTORY_SIZE /\ a < 2 * HISTORY_SIZE
  BY <1>2, Sizes
<1>3. CASE a >= 2 * HISTORY_SIZE
  BY <1>3, Sizes
<1>. QED  BY <1>1, <1>2, <1>3, Sizes

LEMMA RingIndices ==
    ASSUME NEW count \in 0 .. HISTORY_SIZE, NEW head \in Slots
    PROVE  /\ \A i \in 1 .. count :
                /\ (head - count + i - 1 + HISTORY_SIZE) % HISTORY_SIZE = SlotOf(i, count, head)
                /\ SlotOf(i, count, head) \in Slots
           /\ \A back \in 0 .. (count - 1) :
                (head - 1 - back + HISTORY_SIZE * 2) % HISTORY_SIZE
                  = SlotOf(count - back, count, head)
           /\ (head + 1) % HISTORY_SIZE = NextSlot(head) /\ NextSlot(head) \in Slots
           /\ count > 0 => (head - 1 + HISTORY_SIZE) % HISTORY_SIZE = SlotOf(count, count, head)
<1>. USE Sizes DEF Slots
<1>1. ASSUME NEW i \in 1 .. count
      PROVE  /\ (head - count + i - 1 + HISTORY_SIZE) % HISTORY_SIZE = SlotOf(i, count, head)
             /\ SlotOf(i, count, head) \in Slots
  <2>. DEFINE a == head - count + i - 1 + HISTORY_SIZE
  <2>1. a \in 0 .. 3 * HISTORY_SIZE - 1  OBVIOUS
  <2>2. a % HISTORY_SIZE = IF a < HISTORY_SIZE THEN a
                           ELSE IF a < 2 * HISTORY_SIZE THEN a - HISTORY_SIZE
                           ELSE a - 2 * HISTORY_SIZE
    BY ONLY <2>1, Wrap
  <2>. QED  BY <2>2 DEF SlotOf
<1>2. ASSUME NEW back \in 0 .. (count - 1)
      PROVE  (head - 1 - back + HISTORY_SIZE * 2) % HISTORY_SIZE
               = SlotOf(count - back, count, head)
  <2>. DEFINE a == head - 1 - back + HISTORY_SIZE * 2
  <2>1. a \in 0 .. 3 * HISTORY_SIZE - 1  OBVIOUS
  <2>2. a % HISTORY_SIZE = IF a < HISTORY_SIZE THEN a
                           ELSE IF a < 2 * HISTORY_SIZE THEN a - HISTORY_SIZE
                           ELSE a - 2 * HISTORY_SIZE
    BY ONLY <2>1, Wrap
  <2>. QED  BY <2>2 DEF SlotOf
<1>3. (head + 1) % HISTORY_SIZE = NextSlot(head) /\ NextSlot(head) \in Slots
  <2>. DEFINE a == head + 1
  <2>1. a \in 0 .. 3 * HISTORY_SIZE - 1  OBVIOUS
  <2>2. a % HISTORY_SIZE = IF a < HISTORY_SIZE THEN a
                           ELSE IF a < 2 * HISTORY_SIZE THEN a - HISTORY_SIZE
                           ELSE a - 2 * HISTORY_SIZE
    BY ONLY <2>1, Wrap
  <2>. QED  BY <2>2 DEF NextSlot
<1>4. count > 0 => (head - 1 + HISTORY_SIZE) % HISTORY_SIZE = SlotOf(count, count, head)
  <2>. DEFINE a == head - 1 + HISTORY_SIZE
  <2>1. a \in 0 .. 3 * HISTORY_SIZE - 1  OBVIOUS
  <2>2. a % HISTORY_SIZE = IF a < HISTORY_SIZE THEN a
                           ELSE IF a < 2 * HISTORY_SIZE THEN a - HISTORY_SIZE
                           ELSE a - 2 * HISTORY_SIZE
    BY ONLY <2>1, Wrap
  <2>. QED  BY <2>2 DEF SlotOf
<1>. QED  BY <1>1, <1>2, <1>3, <1>4

\* A new entry goes behind the others, or in place of the oldest.
LEMMA SlotsMove ==
    ASSUME NEW count \in 0 .. HISTORY_SIZE, NEW head \in Slots
    PROVE  /\ count < HISTORY_SIZE =>
                /\ SlotOf(count + 1, count + 1, NextSlot(head)) = head
                /\ \A i \in 1 .. count :
                     /\ SlotOf(i, count + 1, NextSlot(head)) = SlotOf(i, count, head)
                     /\ SlotOf(i, count, head) # head
           /\ count = HISTORY_SIZE =>
                /\ SlotOf(count, count, NextSlot(head)) = head
                /\ \A i \in 1 .. (count - 1) :
                     /\ SlotOf(i, count, NextSlot(head)) = SlotOf(i + 1, count, head)
                     /\ SlotOf(i + 1, count, head) # head
BY Sizes DEF Slots, SlotOf, NextSlot

(***************************************************************************)
(* The state as LineEditor sees it.                                        *)
(***************************************************************************)

EditorText == IF halted THEN <<>> ELSE Text
EditorHistory == [i \in 1 .. g_hist_count |-> Entry(i)]
EditorRecall == IF halted THEN 0 ELSE hist_pos + 1

LEMMA TextType ==
    ASSUME LineInv
    PROVE  /\ Text \in Seq(Letters) /\ Len(Text) = pos
           /\ \A k \in 1 .. pos : Text[k] = line[k - 1]
<1>1. pos \in Nat /\ \A k \in 1 .. pos : k - 1 \in Index /\ k - 1 < pos
  BY Sizes DEF LineInv, Index
<1>2. \A k \in 1 .. pos : line[k - 1] \in Letters
  BY <1>1 DEF LineInv, Buffers, Bytes
<1>. QED  BY <1>1, <1>2 DEF Text

\* Its entries, by their slots.
HistoryBySlots ==
    /\ EditorHistory \in Seq(Seq(Letters)) /\ Len(EditorHistory) = g_hist_count
    /\ g_hist_count \in Nat
    /\ \A i \in 1 .. g_hist_count :
         EditorHistory[i] = CString(g_history[SlotOf(i, g_hist_count, g_hist_head)])

LEMMA HistoryType == HistoryInv => HistoryBySlots
<1>. SUFFICES ASSUME HistoryInv PROVE HistoryBySlots  OBVIOUS
<1>1. g_hist_count \in Nat
  BY Sizes DEF HistoryInv
<1>2. \A i \in 1 .. g_hist_count :
         /\ Entry(i) = CString(g_history[SlotOf(i, g_hist_count, g_hist_head)])
         /\ SlotOf(i, g_hist_count, g_hist_head) \in Slots
  BY RingIndices DEF HistoryInv, Entry
<1>3. \A s \in Slots : CString(g_history[s]) \in Seq(Letters)
  BY StringType DEF HistoryInv
<1>. QED  BY <1>1, <1>2, <1>3 DEF EditorHistory, HistoryBySlots

LEMMA NextHistoryType == HistoryInv' => HistoryBySlots'
BY HistoryType, PTL

\* The line with its end is the text.
LEMMA TerminatedIs ==
    ASSUME LineInv
    PROVE  /\ Terminated \in Buffers /\ Terminated[pos] = 0
           /\ \A i \in Index : i < pos => Terminated[i] = line[i]
           /\ EndsAt(Terminated, pos) /\ CString(Terminated) = Text
<1>1. /\ Terminated \in Buffers /\ Terminated[pos] = 0
      /\ \A i \in Index : i < pos => Terminated[i] = line[i]
  BY Sizes DEF LineInv, Terminated, Buffers, Bytes
<1>2. EndsAt(Terminated, pos)
  BY <1>1 DEF LineInv, EndsAt
<1>3. CString(Terminated) = [k \in 1 .. pos |-> Terminated[k - 1]]
  BY <1>2, StringIs
<1>4. \A k \in 1 .. pos : Terminated[k - 1] = line[k - 1]
  BY <1>1, Sizes DEF LineInv, Index
<1>. QED  BY <1>1, <1>2, <1>3, <1>4 DEF Text

(***************************************************************************)
(* history_add remembers the line as LineEditor does.                      *)
(***************************************************************************)

\* What history_add leaves in the slot it writes.
Copied(old, buf, n) == [i \in Index |-> IF i < n THEN buf[i] ELSE IF i = n THEN 0 ELSE old[i]]

LEMMA CopiedString ==
    ASSUME NEW old \in Buffers, NEW buf \in Buffers, NEW n, EndsAt(buf, n)
    PROVE  /\ Copied(old, buf, n) \in Buffers /\ Copied(old, buf, n)[n] = 0
           /\ CString(Copied(old, buf, n)) = CString(buf)
<1>1. n \in Index /\ Copied(old, buf, n) \in Buffers
  BY DEF EndsAt, Copied, Buffers, Bytes
<1>2. \A i \in Index : Copied(old, buf, n)[i] = IF i < n THEN buf[i] ELSE IF i = n THEN 0 ELSE old[i]
  BY DEF Copied
<1>3. EndsAt(Copied(old, buf, n), n)
  BY <1>1, <1>2, Sizes DEF EndsAt
<1>4. \A k \in 1 .. n : Copied(old, buf, n)[k - 1] = buf[k - 1]
  <2>. TAKE k \in 1 .. n
  <2>1. k - 1 \in Index /\ k - 1 < n
    BY <1>1, Sizes DEF Index
  <2>. QED  BY <1>2, <2>1
<1>5. /\ CString(Copied(old, buf, n)) = [k \in 1 .. n |-> Copied(old, buf, n)[k - 1]]
      /\ CString(buf) = [k \in 1 .. n |-> buf[k - 1]]
  BY <1>3, StringIs
<1>. QED  BY <1>1, <1>3, <1>4, <1>5 DEF EndsAt

LEMMA HistoryAdds ==
    ASSUME LineInv, HistoryInv, pos > 0, history_add(Terminated)
    PROVE  /\ HistoryInv' /\ g_hist_count' >= g_hist_count
           /\ EditorHistory' = Abstract!Remember(Text)
<1>. DEFINE buf == Terminated
            H == EditorHistory
            C == g_hist_count
            last == (g_hist_head - 1 + HISTORY_SIZE) % HISTORY_SIZE
<1>t. /\ buf \in Buffers /\ EndsAt(buf, pos) /\ CString(buf) = Text
      /\ Text \in Seq(Letters) /\ Len(Text) = pos /\ Text # <<>> /\ pos \in Nat
  <2>1. Text \in Seq(Letters) /\ Len(Text) = pos /\ pos \in Nat
    BY TextType, Sizes DEF LineInv
  <2>. QED  BY <2>1, TerminatedIs
<1>h. /\ H \in Seq(Seq(Letters)) /\ Len(H) = C /\ C \in Nat
      /\ \A i \in 1 .. C : H[i] = CString(g_history[SlotOf(i, C, g_hist_head)])
  BY HistoryType DEF HistoryBySlots
<1>s. /\ C \in 0 .. HISTORY_SIZE /\ g_hist_head \in Slots
      /\ \A i \in 1 .. C : SlotOf(i, C, g_hist_head) \in Slots
      /\ C > 0 => last = SlotOf(C, C, g_hist_head)
      /\ (g_hist_head + 1) % HISTORY_SIZE = NextSlot(g_hist_head)
      /\ NextSlot(g_hist_head) \in Slots
  BY RingIndices DEF HistoryInv
<1>same. (C > 0 /\ CString(g_history[last]) = Text) <=> (H # <<>> /\ Last(H) = Text)
  BY <1>h, <1>s DEF Last
<1>r. Abstract!Remember(Text) =
         IF H # <<>> /\ Last(H) = Text THEN H
         ELSE IF Len(Append(H, Text)) > HISTORY_SIZE THEN Tail(Append(H, Text))
         ELSE Append(H, Text)
  BY <1>t DEF Abstract!Remember, EditorHistory, Last, Abstract!Last
<1>. HIDE DEF last
<1>1. CASE C > 0 /\ CString(g_history[last]) = Text
  <2>1. UNCHANGED <<g_history, g_hist_count, g_hist_head>>
    BY <1>1, <1>t DEF history_add, last
  <2>2. EditorHistory' = H
    BY <2>1 DEF EditorHistory, Entry
  <2>. QED  BY <1>1, <1>same, <1>r, <2>1, <2>2, <1>s, Sizes DEF HistoryInv
<1>2. CASE ~(C > 0 /\ CString(g_history[last]) = Text)
  <2>. DEFINE new == Copied(g_history[g_hist_head], buf, pos)
  <2>1. /\ g_history' = [g_history EXCEPT ![g_hist_head] = new]
        /\ g_hist_head' = NextSlot(g_hist_head)
        /\ g_hist_count' = IF C < HISTORY_SIZE THEN C + 1 ELSE C
    BY <1>2, <1>t, <1>s DEF history_add, Copied, last
  <2>2. new \in Buffers /\ new[pos] = 0 /\ CString(new) = Text /\ pos \in Index
    BY <1>t, <1>s, CopiedString DEF HistoryInv, LineInv
  <2>. HIDE DEF new
  <2>3. HistoryInv'
    <3>1. g_history' \in [Slots -> Buffers] /\ \A s \in Slots : \E i \in Index : g_history'[s][i] = 0
      BY <2>1, <2>2, <1>s DEF HistoryInv
    <3>. QED  BY <2>1, <3>1, <1>s, Sizes DEF HistoryInv
  <2>4. \A s \in Slots : CString(g_history'[s]) =
                            IF s = g_hist_head THEN Text ELSE CString(g_history[s])
    BY <2>1, <2>2, <1>s DEF HistoryInv
  <2>5. /\ EditorHistory' \in Seq(Seq(Letters)) /\ Len(EditorHistory') = g_hist_count'
        /\ \A i \in 1 .. g_hist_count' :
             EditorHistory'[i] = CString(g_history'[SlotOf(i, g_hist_count', NextSlot(g_hist_head))])
    BY <2>1, <2>3, NextHistoryType DEF HistoryBySlots
  <2>6. CASE C < HISTORY_SIZE
    <3>1. ASSUME NEW i \in 1 .. C PROVE EditorHistory'[i] = H[i]
      <4>1. i \in 1 .. g_hist_count' /\ g_hist_count' = C + 1
        BY <2>1, <2>6, <1>h
      <4>2. /\ SlotOf(i, C + 1, NextSlot(g_hist_head)) = SlotOf(i, C, g_hist_head)
            /\ SlotOf(i, C, g_hist_head) # g_hist_head
        BY <2>6, <1>s, SlotsMove
      <4>. QED  BY <2>4, <2>5, <4>1, <4>2, <1>s, <1>h
    <3>2. EditorHistory'[C + 1] = Text
      BY <2>1, <2>4, <2>5, <2>6, <1>s, <1>h, SlotsMove
    <3>3. EditorHistory' = Append(H, Text)
      BY <2>1, <2>5, <2>6, <3>1, <3>2, <1>h, <1>t
    <3>. QED  BY <2>1, <2>3, <2>6, <3>3, <1>2, <1>same, <1>r, <1>h, <1>t, Sizes
  <2>7. CASE C = HISTORY_SIZE
    <3>1. ASSUME NEW i \in 1 .. (C - 1) PROVE EditorHistory'[i] = H[i + 1]
      <4>1. i \in 1 .. g_hist_count' /\ i + 1 \in 1 .. C /\ g_hist_count' = C
        BY <2>1, <2>7, <1>h
      <4>2. /\ SlotOf(i, C, NextSlot(g_hist_head)) = SlotOf(i + 1, C, g_hist_head)
            /\ SlotOf(i + 1, C, g_hist_head) # g_hist_head
        BY <2>7, <1>s, SlotsMove
      <4>. QED  BY <2>4, <2>5, <4>1, <4>2, <1>s, <1>h
    <3>2. EditorHistory'[C] = Text
      BY <2>1, <2>4, <2>5, <2>7, <1>s, <1>h, SlotsMove, Sizes
    <3>3. EditorHistory' = Tail(Append(H, Text))
      <4>. DEFINE all == Append(H, Text)
      <4>1. /\ all \in Seq(Seq(Letters)) /\ Len(all) = C + 1
            /\ \A i \in 1 .. (C - 1) : all[i + 1] = H[i + 1]
            /\ all[C + 1] = Text
        <5>1. /\ all \in Seq(Seq(Letters)) /\ Len(all) = C + 1
              /\ \A i \in 1 .. C : all[i] = H[i]
              /\ all[C + 1] = Text
          BY <1>h, <1>t, AppendProperties
        <5>2. \A i \in 1 .. (C - 1) : i + 1 \in 1 .. C
          BY <1>h
        <5>. HIDE DEF all
        <5>. QED  BY <5>1, <5>2
      <4>. HIDE DEF all
      <4>2. /\ Tail(all) \in Seq(Seq(Letters)) /\ Len(Tail(all)) = C
            /\ \A i \in 1 .. C : Tail(all)[i] = all[i + 1]
        BY <4>1, <1>h
      <4>3. g_hist_count' = C /\ C \in Nat /\ C > 0
        BY <2>1, <2>7, <1>h, Sizes
      <4>4. \A i \in 1 .. C : EditorHistory'[i] = Tail(all)[i]
        BY <3>1, <3>2, <4>1, <4>2, <4>3
      <4>5. EditorHistory' = Tail(all)
        BY <2>5, <4>2, <4>3, <4>4
      <4>. QED  BY <4>5 DEF all
    <3>. QED  BY <2>1, <2>3, <2>7, <3>3, <1>2, <1>same, <1>r, <1>h, <1>t, Sizes
  <2>. QED  BY <2>6, <2>7, <1>s, Sizes
<1>. QED  BY <1>1, <1>2

(***************************************************************************)
(* The steps.                                                              *)
(***************************************************************************)

\* What a key does to the buffers, and what LineEditor calls it.
Refines == [Abstract!Next]_(Abstract!vars)
EditorStep == EditorInv' /\ Refines

LEMMA EditorInit == Init => EditorInv /\ Abstract!Init
<1>. SUFFICES ASSUME Init PROVE EditorInv /\ Abstract!Init  OBVIOUS
<1>i. /\ line = [i \in Index |-> 0] /\ pos = 0 /\ hist_pos = -1
      /\ g_history = [s \in Slots |-> [i \in Index |-> 0]]
      /\ g_hist_count = 0 /\ g_hist_head = 0 /\ halted = FALSE /\ executed = <<>>
  BY DEF Init
<1>l. LineInv
  BY <1>i, Sizes DEF LineInv, Buffers, Bytes
<1>h. HistoryInv
  BY <1>i, Sizes DEF HistoryInv, Buffers, Bytes
<1>r. RecallInv
  BY <1>i DEF RecallInv
<1>1. LineInv /\ HistoryInv /\ RecallInv /\ ~halted /\ halted \in BOOLEAN
  BY <1>i, <1>l, <1>h, <1>r
<1>2. /\ EditorText = <<>> /\ EditorHistory = <<>> /\ EditorRecall = 0 /\ executed = <<>>
  BY <1>1, HistoryType DEF Init, EditorText, EditorRecall, Text, HistoryBySlots
<1>3. Abstract!Init
  BY <1>2 DEF Abstract!Init, EditorText, EditorHistory, EditorRecall
<1>. QED  BY <1>1, <1>3 DEF EditorInv

\* The variables of LineEditor, by name.
LEMMA AbstractActions ==
    /\ Abstract!vars = <<EditorText, EditorHistory, EditorRecall, executed>>
    /\ Abstract!Enter <=>
         /\ executed' = EditorText /\ EditorHistory' = Abstract!Remember(EditorText)
         /\ EditorText' = <<>> /\ EditorRecall' = 0
    /\ Abstract!Cancel <=>
         EditorText' = <<>> /\ EditorRecall' = 0 /\ UNCHANGED <<EditorHistory, executed>>
    /\ \A c \in Letters : Abstract!Type(c) <=>
         /\ Len(EditorText) < LINE_MAX - 1 /\ EditorText' = Append(EditorText, c)
         /\ UNCHANGED <<EditorHistory, EditorRecall, executed>>
    /\ Abstract!Erase <=>
         /\ EditorText # <<>> /\ EditorText' = Front(EditorText)
         /\ UNCHANGED <<EditorHistory, EditorRecall, executed>>
    /\ Abstract!Up <=>
         /\ EditorRecall < Len(EditorHistory) /\ EditorRecall' = EditorRecall + 1
         /\ EditorText' = EditorHistory[Len(EditorHistory) + 1 - (EditorRecall + 1)]
         /\ UNCHANGED <<EditorHistory, executed>>
    /\ Abstract!Down <=>
         /\ EditorRecall > 0 /\ EditorRecall' = EditorRecall - 1
         /\ EditorText' = IF EditorRecall = 1 THEN <<>>
                          ELSE EditorHistory[Len(EditorHistory) + 1 - (EditorRecall - 1)]
         /\ UNCHANGED <<EditorHistory, executed>>
<1>. USE DEF EditorText, EditorHistory, EditorRecall
<1>1. Abstract!vars = <<EditorText, EditorHistory, EditorRecall, executed>>
  BY Zenon DEF Abstract!vars
<1>2. Abstract!Enter <=>
         /\ executed' = EditorText /\ EditorHistory' = Abstract!Remember(EditorText)
         /\ EditorText' = <<>> /\ EditorRecall' = 0
  BY Zenon DEF Abstract!Enter
<1>3. Abstract!Cancel <=>
         EditorText' = <<>> /\ EditorRecall' = 0 /\ UNCHANGED <<EditorHistory, executed>>
  BY Zenon DEF Abstract!Cancel
<1>4. \A c \in Letters : Abstract!Type(c) <=>
         /\ Len(EditorText) < LINE_MAX - 1 /\ EditorText' = Append(EditorText, c)
         /\ UNCHANGED <<EditorHistory, EditorRecall, executed>>
  BY Zenon DEF Abstract!Type
<1>5. Abstract!Erase <=>
         /\ EditorText # <<>> /\ EditorText' = Front(EditorText)
         /\ UNCHANGED <<EditorHistory, EditorRecall, executed>>
  BY Zenon DEF Abstract!Erase, Front, Abstract!Front
<1>6. Abstract!Up <=>
         /\ EditorRecall < Len(EditorHistory) /\ EditorRecall' = EditorRecall + 1
         /\ EditorText' = EditorHistory[Len(EditorHistory) + 1 - (EditorRecall + 1)]
         /\ UNCHANGED <<EditorHistory, executed>>
  BY Zenon DEF Abstract!Up, Abstract!Recalled
<1>7. Abstract!Down <=>
         /\ EditorRecall > 0 /\ EditorRecall' = EditorRecall - 1
         /\ EditorText' = IF EditorRecall = 1 THEN <<>>
                          ELSE EditorHistory[Len(EditorHistory) + 1 - (EditorRecall - 1)]
         /\ UNCHANGED <<EditorHistory, executed>>
  BY Zenon DEF Abstract!Down, Abstract!Recalled
<1>. QED  BY <1>1, <1>2, <1>3, <1>4, <1>5, <1>6, <1>7

LEMMA EnterStep == ASSUME EditorInv, KeyEnter PROVE EditorStep
<1>. USE DEF EditorInv
<1>1. /\ ~halted /\ executed' = CString(Terminated)
      /\ IF pos > 0 THEN history_add(Terminated)
         ELSE UNCHANGED <<g_history, g_hist_count, g_hist_head>>
      /\ \/ halted' = TRUE /\ UNCHANGED <<pos, hist_pos>> /\ line' = Terminated
         \/ /\ halted' = FALSE /\ pos' = 0 /\ hist_pos' = -1
            /\ line' = [Terminated EXCEPT ![0] = 0]
  BY DEF KeyEnter, execute, NewLine
<1>2. /\ Terminated \in Buffers /\ EndsAt(Terminated, pos) /\ CString(Terminated) = Text
      /\ \A i \in Index : i < pos => Terminated[i] = line[i]
  BY TerminatedIs
<1>3. EditorText = Text /\ Len(Text) = pos /\ Text \in Seq(Letters) /\ pos \in Index
  BY <1>1, TextType DEF EditorText, LineInv
<1>4. HistoryInv' /\ g_hist_count' >= g_hist_count /\ EditorHistory' = Abstract!Remember(Text)
  <2>1. CASE pos > 0
    BY <1>1, <2>1, HistoryAdds
  <2>2. CASE ~(pos > 0)
    <3>1. UNCHANGED <<g_history, g_hist_count, g_hist_head>>
      BY <1>1, <2>2
    <3>2. EditorHistory' = EditorHistory
      BY <3>1 DEF EditorHistory, Entry
    <3>3. Text = <<>>
      BY <1>3, <2>2, Sizes
    <3>4. Abstract!Remember(Text) = EditorHistory
      BY <3>3 DEF Abstract!Remember, EditorHistory
    <3>. QED  BY <3>1, <3>2, <3>4, Sizes DEF HistoryInv
  <2>. QED  BY <2>1, <2>2
<1>5. LineInv'
  BY <1>1, <1>2, Sizes DEF LineInv, EndsAt, Buffers, Bytes
<1>6. RecallInv' /\ halted' \in BOOLEAN
  <2>1. g_hist_count \in Int /\ g_hist_count' \in Nat /\ g_hist_count' >= g_hist_count
    BY <1>4, Sizes DEF HistoryInv
  <2>2. hist_pos' = hist_pos \/ hist_pos' = -1
    BY <1>1
  <2>3. hist_pos' \in -1 .. (g_hist_count' - 1)
    BY <2>1, <2>2 DEF RecallInv
  <2>4. halted' \in BOOLEAN
    BY <1>1
  <2>. QED  BY <2>3, <2>4 DEF RecallInv
<1>7. EditorText' = <<>> /\ EditorRecall' = 0
  BY <1>1 DEF EditorText, EditorRecall, Text
<1>8. Abstract!Enter
  BY <1>1, <1>2, <1>3, <1>4, <1>7, AbstractActions
<1>. QED  BY <1>4, <1>5, <1>6, <1>8 DEF EditorStep, Refines, Abstract!Next

LEMMA CtrlCStep == ASSUME EditorInv, KeyCtrlC PROVE EditorStep
<1>. USE DEF EditorInv
<1>1. /\ ~halted /\ pos' = 0 /\ hist_pos' = -1 /\ line' = [line EXCEPT ![0] = 0]
      /\ UNCHANGED <<g_history, g_hist_count, g_hist_head, executed, halted>>
  BY DEF KeyCtrlC, NewLine
<1>2. EditorText' = <<>> /\ EditorRecall' = 0 /\ EditorHistory' = EditorHistory
  BY <1>1 DEF EditorText, EditorRecall, Text, EditorHistory, Entry
<1>3. LineInv'
  BY <1>1, Sizes DEF LineInv, Buffers, Bytes
<1>4. HistoryInv' /\ RecallInv' /\ halted' \in BOOLEAN
  BY <1>1, Sizes DEF HistoryInv, RecallInv
<1>5. Abstract!Cancel
  BY <1>1, <1>2, AbstractActions
<1>. QED  BY <1>3, <1>4, <1>5 DEF EditorStep, Refines, Abstract!Next

LEMMA BackspaceStep == ASSUME EditorInv, KeyBackspace PROVE EditorStep
<1>. USE DEF EditorInv
<1>1. /\ ~halted /\ pos > 0 /\ pos' = pos - 1
      /\ UNCHANGED <<line, hist_pos, g_history, g_hist_count, g_hist_head, executed, halted>>
  BY DEF KeyBackspace
<1>2. EditorRecall' = EditorRecall /\ EditorHistory' = EditorHistory
  BY <1>1 DEF EditorRecall, EditorHistory, Entry
<1>3. LineInv'
  BY <1>1, Sizes DEF LineInv, Index
<1>4. HistoryInv' /\ RecallInv' /\ halted' \in BOOLEAN
  BY <1>1, Sizes DEF HistoryInv, RecallInv
<1>5. EditorText # <<>> /\ EditorText' = Front(EditorText)
  <2>1. /\ EditorText = Text /\ EditorText' = Text'
        /\ Text \in Seq(Letters) /\ Len(Text) = pos /\ pos \in Nat
        /\ \A k \in 1 .. pos : Text[k] = line[k - 1]
    BY <1>1, TextType, Sizes DEF EditorText, LineInv
  <2>2. Text' = [k \in 1 .. (pos - 1) |-> line[k - 1]]
    BY <1>1 DEF Text
  <2>3. /\ Front(Text) \in Seq(Letters) /\ Len(Front(Text)) = pos - 1
        /\ \A k \in 1 .. (pos - 1) : Front(Text)[k] = Text[k]
    BY <1>1, <2>1 DEF Front
  <2>. QED  BY <1>1, <2>1, <2>2, <2>3
<1>6. Abstract!Erase
  BY <1>1, <1>2, <1>5, AbstractActions
<1>. QED  BY <1>3, <1>4, <1>6 DEF EditorStep, Refines, Abstract!Next

\* A string of the history, or the empty one, takes the place of the text.
LEMMA RecallPuts ==
    ASSUME EditorInv, ~halted, NEW next \in -1 .. (g_hist_count - 1),
           NEW str \in Seq(Letters), Len(str) \in Index, Recall(next, str)
    PROVE  /\ EditorInv' /\ EditorText' = str /\ EditorRecall' = next + 1
           /\ UNCHANGED <<EditorHistory, executed>>
<1>. USE DEF EditorInv
<1>1. /\ line' = [i \in Index |-> IF i < Len(str) THEN str[i + 1] ELSE line[i]]
      /\ pos' = Len(str) /\ hist_pos' = next
      /\ UNCHANGED <<g_history, g_hist_count, g_hist_head, executed, halted>>
  BY DEF Recall
<1>2. \A k \in 1 .. Len(str) : k - 1 \in Index /\ k - 1 < Len(str) /\ str[k] \in Letters
  BY Sizes DEF Index
<1>3. \A i \in Index : i < Len(str) => str[i + 1] \in Letters
  BY Sizes
<1>4. LineInv'
  BY <1>1, <1>3, Sizes DEF LineInv, Buffers, Bytes
<1>5. HistoryInv' /\ RecallInv' /\ halted' = FALSE
  BY <1>1, Sizes DEF HistoryInv, RecallInv
<1>6. Text' = [k \in 1 .. Len(str) |-> line'[k - 1]]
  BY <1>1 DEF Text
<1>7. Text' = str
  BY <1>1, <1>2, <1>6
<1>8. EditorHistory' = EditorHistory
  BY <1>1 DEF EditorHistory, Entry
<1>. QED  BY <1>1, <1>4, <1>5, <1>7, <1>8 DEF EditorText, EditorRecall

\* history_get steps back from the newest entry.
LEMMA GetIs ==
    ASSUME HistoryInv, NEW back \in 0 .. (g_hist_count - 1)
    PROVE  /\ history_get(back) = EditorHistory[g_hist_count - back]
           /\ history_get(back) \in Seq(Letters) /\ Len(history_get(back)) \in Index
<1>1. g_hist_count - back \in 1 .. g_hist_count
  BY Sizes DEF HistoryInv
<1>2. /\ (g_hist_head - 1 - back + HISTORY_SIZE * 2) % HISTORY_SIZE
           = SlotOf(g_hist_count - back, g_hist_count, g_hist_head)
      /\ SlotOf(g_hist_count - back, g_hist_count, g_hist_head) \in Slots
  BY <1>1, RingIndices DEF HistoryInv
<1>3. history_get(back) = CString(g_history[SlotOf(g_hist_count - back, g_hist_count, g_hist_head)])
  BY <1>2 DEF history_get
<1>4. history_get(back) = EditorHistory[g_hist_count - back]
  BY <1>1, <1>3, HistoryType DEF HistoryBySlots
<1>. QED  BY <1>2, <1>3, <1>4, StringType DEF HistoryInv

LEMMA UpStep == ASSUME EditorInv, KeyUp PROVE EditorStep
<1>. USE DEF EditorInv
<1>. DEFINE next == hist_pos + 1
<1>1. ~halted /\ next < g_hist_count /\ Recall(next, history_get(next))
  BY DEF KeyUp
<1>2. next \in 0 .. (g_hist_count - 1) /\ next \in -1 .. (g_hist_count - 1)
  BY <1>1, Sizes DEF RecallInv, HistoryInv
<1>3. /\ history_get(next) = EditorHistory[g_hist_count - next]
      /\ history_get(next) \in Seq(Letters) /\ Len(history_get(next)) \in Index
  BY <1>2, GetIs
<1>4. /\ EditorInv' /\ EditorText' = history_get(next) /\ EditorRecall' = next + 1
      /\ UNCHANGED <<EditorHistory, executed>>
  BY <1>1, <1>2, <1>3, RecallPuts
<1>5. /\ EditorRecall = next /\ Len(EditorHistory) = g_hist_count
      /\ Len(EditorHistory) + 1 - (EditorRecall + 1) = g_hist_count - next
  BY <1>1, <1>2, HistoryType DEF EditorRecall, HistoryBySlots
<1>6. Abstract!Up
  BY <1>1, <1>3, <1>4, <1>5, AbstractActions
<1>. QED  BY <1>4, <1>6 DEF EditorStep, Refines, Abstract!Next

LEMMA DownStep == ASSUME EditorInv, KeyDown PROVE EditorStep
<1>. USE DEF EditorInv
<1>. DEFINE next == hist_pos - 1
<1>0. ~halted /\ EditorRecall = hist_pos + 1 /\ Len(EditorHistory) = g_hist_count
      /\ g_hist_count \in Nat /\ hist_pos \in Int
  BY HistoryType DEF KeyDown, EditorRecall, HistoryBySlots, RecallInv
<1>1. CASE hist_pos > 0 /\ Recall(next, history_get(next))
  <2>1. next \in 0 .. (g_hist_count - 1) /\ next \in -1 .. (g_hist_count - 1)
    BY <1>0, <1>1 DEF RecallInv
  <2>2. /\ history_get(next) = EditorHistory[g_hist_count - next]
        /\ history_get(next) \in Seq(Letters) /\ Len(history_get(next)) \in Index
    BY <2>1, GetIs
  <2>3. /\ EditorInv' /\ EditorText' = history_get(next) /\ EditorRecall' = next + 1
        /\ UNCHANGED <<EditorHistory, executed>>
    BY <1>0, <1>1, <2>1, <2>2, RecallPuts
  <2>4. /\ EditorRecall > 0 /\ EditorRecall # 1 /\ EditorRecall' = EditorRecall - 1
        /\ Len(EditorHistory) + 1 - (EditorRecall - 1) = g_hist_count - next
    BY <1>0, <1>1, <2>3
  <2>5. Abstract!Down
    BY <2>2, <2>3, <2>4, AbstractActions
  <2>. QED  BY <2>3, <2>5 DEF EditorStep, Refines, Abstract!Next
<1>2. CASE hist_pos = 0 /\ Recall(-1, <<>>)
  <2>1. /\ -1 \in -1 .. (g_hist_count - 1) /\ <<>> \in Seq(Letters) /\ Len(<<>>) \in Index
    BY <1>0, Sizes
  <2>2. /\ EditorInv' /\ EditorText' = <<>> /\ EditorRecall' = -1 + 1
        /\ UNCHANGED <<EditorHistory, executed>>
    BY <1>0, <1>2, <2>1, RecallPuts
  <2>3. EditorRecall = 1 /\ EditorRecall' = 0
    BY <1>0, <1>2, <2>2
  <2>4. Abstract!Down
    BY <2>2, <2>3, AbstractActions
  <2>. QED  BY <2>2, <2>4 DEF EditorStep, Refines, Abstract!Next
<1>. QED  BY <1>1, <1>2 DEF KeyDown

LEMMA CharStep == ASSUME EditorInv, NEW c \in Letters, KeyChar(c) PROVE EditorStep
<1>. USE DEF EditorInv
<1>1. /\ ~halted /\ pos < LINE_MAX - 1 /\ line' = [line EXCEPT ![pos] = c] /\ pos' = pos + 1
      /\ UNCHANGED <<hist_pos, g_history, g_hist_count, g_hist_head, executed, halted>>
  BY DEF KeyChar
<1>2. EditorRecall' = EditorRecall /\ EditorHistory' = EditorHistory
  BY <1>1 DEF EditorRecall, EditorHistory, Entry
<1>3. LineInv'
  BY <1>1, Sizes DEF LineInv, Index, Buffers, Bytes
<1>4. HistoryInv' /\ RecallInv' /\ halted' \in BOOLEAN
  BY <1>1, Sizes DEF HistoryInv, RecallInv
<1>5. Len(EditorText) < LINE_MAX - 1 /\ EditorText' = Append(EditorText, c)
  <2>1. /\ EditorText = Text /\ EditorText' = Text'
        /\ Text \in Seq(Letters) /\ Len(Text) = pos /\ pos \in Nat
        /\ \A k \in 1 .. pos : Text[k] = line[k - 1]
    BY <1>1, TextType, Sizes DEF EditorText, LineInv
  <2>2. Text' = [k \in 1 .. (pos + 1) |-> line'[k - 1]]
    BY <1>1 DEF Text
  <2>3. \A k \in 1 .. (pos + 1) : line'[k - 1] = IF k = pos + 1 THEN c ELSE line[k - 1]
    BY <1>1, <2>1 DEF LineInv, Index, Buffers
  <2>4. /\ Append(Text, c) \in Seq(Letters) /\ Len(Append(Text, c)) = pos + 1
        /\ \A k \in 1 .. pos : Append(Text, c)[k] = Text[k]
        /\ Append(Text, c)[pos + 1] = c
    BY <2>1, AppendProperties
  <2>5. Text' = Append(Text, c)
    <3>1. Text' = [k \in 1 .. (pos + 1) |-> IF k = pos + 1 THEN c ELSE line[k - 1]]
      BY <2>2, <2>3
    <3>2. \A k \in 1 .. (pos + 1) : k = pos + 1 \/ k \in 1 .. pos
      BY <2>1
    <3>3. \A k \in 1 .. (pos + 1) :
            Append(Text, c)[k] = IF k = pos + 1 THEN c ELSE line[k - 1]
      BY <2>1, <2>4, <3>2
    <3>. DEFINE longer == Append(Text, c)
    <3>4. longer \in Seq(Letters) /\ Len(longer) = pos + 1
      BY <2>4
    <3>5. \A k \in 1 .. (pos + 1) : longer[k] = IF k = pos + 1 THEN c ELSE line[k - 1]
      BY <3>3
    <3>. HIDE DEF longer
    <3>6. longer = [k \in 1 .. (pos + 1) |-> longer[k]]
      BY <3>4
    <3>7. longer = Text'
      BY <3>1, <3>5, <3>6
    <3>. QED  BY <3>7 DEF longer
  <2>. QED  BY <1>1, <2>1, <2>5
<1>6. Abstract!Type(c)
  BY <1>1, <1>2, <1>5, AbstractActions
<1>. QED  BY <1>3, <1>4, <1>6 DEF EditorStep, Refines, Abstract!Next

LEMMA EditorNext == EditorInv /\ [Next]_vars => EditorStep
<1>. SUFFICES ASSUME EditorInv, [Next]_vars PROVE EditorStep  OBVIOUS
<1>1. CASE UNCHANGED vars
  <2>1. /\ UNCHANGED <<line, pos, hist_pos, g_history, g_hist_count, g_hist_head, executed>>
        /\ halted' = halted
    BY <1>1 DEF vars, editor
  <2>2. EditorInv'
    BY <2>1 DEF EditorInv, LineInv, HistoryInv, RecallInv
  <2>3. UNCHANGED <<EditorText, EditorHistory, EditorRecall, executed>>
    BY <2>1 DEF EditorText, EditorHistory, EditorRecall, Text, Entry
  <2>4. UNCHANGED Abstract!vars
    BY <2>3 DEF Abstract!vars, EditorText, EditorHistory, EditorRecall
  <2>5. Refines
    BY <2>4 DEF Refines
  <2>. QED  BY <2>2, <2>5 DEF EditorStep
<1>2. CASE Next
  <2>1. ASSUME NEW c \in Letters, KeyChar(c) PROVE EditorStep
    BY <2>1, CharStep
  <2>. QED
    BY <1>2, <2>1, EnterStep, CtrlCStep, BackspaceStep, UpStep, DownStep DEF Next
<1>. QED  BY <1>1, <1>2
----------------------------------------------------------------------------
\* In every state the line ends within its buffer, every slot of the history
\* holds a string, and the arrows point into the history (shell_run,
\* history_add).
THEOREM EditorInvariant == Spec => []EditorInv
<1>1. EditorInv /\ [Next]_vars => EditorInv'
  BY EditorNext DEF EditorStep
<1>. QED  BY EditorInit, <1>1, PTL DEF Spec

\* The buffers of shell_run with their stale bytes and the ring of commands
\* behave as a text and a list of past commands: every key does what
\* LineEditor says, and execute is given the text.
THEOREM RefinesLineEditor == Spec => ImplementsEditor
<1>1. EditorInv /\ [Next]_vars => [Abstract!Next]_(Abstract!vars)
  BY EditorNext DEF EditorStep, Refines
<1>. QED
  BY EditorInit, EditorInvariant, <1>1, PTL DEF Spec, ImplementsEditor, Abstract!Spec

(***************************************************************************)
(* The input layer.                                                        *)
(***************************************************************************)
InputType ==
    /\ queue \in Seq(Keys)
    /\ g_source \in {AUTO, "PS2", "USB", "DEMO"}
    /\ g_demo_active \in BOOLEAN
    /\ since \in 0 .. DEMO_TIMEOUT_TICKS /\ quiet \in 0 .. DEMO_TIMEOUT_TICKS
    /\ pc \in {"shell", "poll", "demo", "hlt", "halted"}
    /\ late \in Nat

\* The ticks demo_start looks at never exceed the ticks without a key: only a
\* key read in automatic mode restarts the second, and it restarts the first.
\* Between the two polls of one call the source is automatic.
SilenceInv ==
    /\ since <= quiet
    /\ pc = "demo" => g_source = AUTO
    /\ DemoOnlyAfterSilence

\* A character is late only while the key it passed is still queued, and none
\* is when the queue has just been found empty.
LateInv ==
    /\ late # 0 => queue # <<>>
    /\ pc = "demo" => late = 0
    /\ DemoYieldsToKey

\* Where the next character of the script is read.
CursorInScript ==
    /\ g_demo_line \in 0 .. Len(Script) /\ g_demo_char \in Nat
    /\ g_demo_line = Len(Script) => g_demo_char = 0
    /\ g_demo_line < Len(Script) => g_demo_char <= Script[g_demo_line + 1]

InputInv == InputType /\ SilenceInv /\ LateInv /\ CursorInScript
----------------------------------------------------------------------------
\* The constants, one by one.
LEMMA Timeout == DEMO_TIMEOUT_TICKS \in Nat \ {0}
BY InputAssumption

\* A line of the script is not empty, and the script is a finite sequence.
LEMMA ScriptLines ==
    /\ Len(Script) \in Nat
    /\ \A l \in 0 .. Len(Script) - 1 : Script[l + 1] \in Nat \ {0}
    /\ 0 < Len(Script) => 0 <= Script[0 + 1]
BY InputAssumption

\* The invariant holds when the kernel starts.
LEMMA InputInitInv == InputInit => InputInv
<1>. SUFFICES ASSUME InputInit PROVE InputInv  OBVIOUS
<1>1. InputType
  <2>1. queue \in Seq(Keys)  BY DEF InputInit
  <2>2. since \in 0 .. DEMO_TIMEOUT_TICKS /\ quiet \in 0 .. DEMO_TIMEOUT_TICKS
    BY Timeout DEF InputInit
  <2>3. late \in Nat  BY DEF InputInit
  <2>. QED  BY <2>1, <2>2, <2>3, Zenon DEF InputInit, InputType
<1>2. SilenceInv /\ LateInv
  BY Timeout DEF InputInit, SilenceInv, LateInv, DemoOnlyAfterSilence, DemoYieldsToKey
<1>3. CursorInScript
  BY ScriptLines DEF InputInit, CursorInScript
<1>. QED  BY <1>1, <1>2, <1>3 DEF InputInv

\* What demo_get_char does to the state of the script.
LEMMA GetChar ==
    ASSUME InputInv, demo_get_char
    PROVE  /\ g_demo_active' = g_demo_active
           /\ pc' \in {"hlt", "shell"}
           /\ late' = late \/ (g_source = AUTO /\ queue # <<>> /\ late' = late + 1)
           /\ CursorInScript'
<1>. USE DEF demo_get_char
<1>. Script \in Seq(Nat \ {0})  BY InputAssumption
<1>1. CASE TooEarly /\ wait > 0
  BY <1>1 DEF TooEarly, InputInv, CursorInScript
<1>2. CASE EndOfScript /\ ~ wait > 0
  BY <1>2, ScriptLines DEF EndOfScript, InputInv, CursorInScript
<1>3. CASE EndOfLine(g_demo_line) /\ g_demo_line # Len(Script)
  BY <1>3, ScriptLines DEF EndOfLine, InputInv, CursorInScript
<1>4. CASE /\ Emit(g_demo_line, g_demo_char) /\ g_demo_line # Len(Script)
           /\ g_demo_char # Script[g_demo_line + 1]
  BY <1>4, ScriptLines DEF Emit, InputInv, CursorInScript
<1>. QED  BY <1>1, <1>2, <1>3, <1>4

\* Each step keeps the invariant.
LEMMA InputNextInv == InputInv /\ [InputNext]_inputVars => InputInv'
<1>. SUFFICES ASSUME InputInv, [InputNext]_inputVars PROVE InputInv'  OBVIOUS
<1>. USE Timeout, ScriptLines
<1>inv. USE DEF InputInv, InputType, SilenceInv, LateInv,
                DemoOnlyAfterSilence, DemoYieldsToKey
<1>1. CASE pit_tick
  <2>1. /\ since' \in 0 .. DEMO_TIMEOUT_TICKS /\ quiet' \in 0 .. DEMO_TIMEOUT_TICKS
        /\ since' <= quiet' /\ (quiet = DEMO_TIMEOUT_TICKS => quiet' = quiet)
    BY <1>1 DEF pit_tick, Capped
  <2>2. pc' \in {pc, "poll"}
    BY <1>1 DEF pit_tick, Wake
  <2>. QED  BY <1>1, <2>1, <2>2 DEF pit_tick, CursorInScript
<1>2. ASSUME NEW k \in Keys, KeyPress(k) PROVE InputInv'
  <2>1. pc' \in {pc, "poll"}
    BY <1>2 DEF KeyPress, Wake
  <2>2. queue' \in Seq(Keys) /\ (queue # <<>> => queue' # <<>>)
    BY <1>2 DEF KeyPress
  <2>. QED  BY <1>2, <2>1, <2>2 DEF KeyPress, demo, CursorInScript
<1>3. CASE Call
  BY <1>3 DEF Call, demo, CursorInScript
<1>4. CASE PollKey
  <2>1. queue' \in Seq(Keys)
    BY <1>4 DEF PollKey, ReturnKey
  <2>2. CursorInScript'
    BY <1>4 DEF PollKey, demo_stop, CursorInScript
  <2>3. g_demo_active' \in BOOLEAN /\ ~g_demo_active'
    BY <1>4, Zenon DEF PollKey, demo_stop
  <2>4. /\ since' = 0 /\ quiet' = 0 /\ late' = 0 /\ pc' = "shell"
        /\ g_source' = g_source
    BY <1>4, Zenon DEF PollKey, ReturnKey
  <2>. QED  BY <2>1, <2>2, <2>3, <2>4
<1>5. CASE PollEmpty
  BY <1>5 DEF PollEmpty, demo, CursorInScript
<1>6. CASE AutoDemo
  <2>1. CASE ~g_demo_active /\ since >= DEMO_TIMEOUT_TICKS /\ demo_start
    BY <1>6, <2>1 DEF AutoDemo, demo_start, CursorInScript
  <2>2. CASE ~g_demo_active /\ pc' = "hlt" /\ UNCHANGED <<demo, out, late>>
    BY <1>6, <2>2 DEF AutoDemo, demo, CursorInScript
  <2>3. CASE g_demo_active /\ demo_get_char
    BY <1>6, <2>3, GetChar DEF AutoDemo
  <2>. QED  BY <1>6, <2>1, <2>2, <2>3 DEF AutoDemo
<1>7. CASE ForcedPs2
  BY <1>7 DEF ForcedPs2, ReturnKey, demo, AUTO, CursorInScript
<1>8. CASE ForcedUsb
  BY <1>8 DEF ForcedUsb, demo, CursorInScript
<1>9. CASE ForcedDemo
  <2>1. CASE demo_start
    BY <1>9, <2>1 DEF ForcedDemo, demo_start, AUTO, CursorInScript
  <2>2. CASE demo_get_char
    BY <1>9, <2>2, GetChar DEF ForcedDemo, AUTO
  <2>. QED  BY <1>9, <2>1, <2>2 DEF ForcedDemo
<1>10. CASE Halt
  BY <1>10 DEF Halt, demo, CursorInScript
<1>11. ASSUME NEW src \in Sources, input_set_source(src) PROVE InputInv'
  <2>1. src \in {AUTO, "PS2", "USB", "DEMO"}
    BY InputAssumption
  <2>. QED  BY <1>11, <2>1 DEF input_set_source, AUTO, CursorInScript
<1>12. CASE UNCHANGED inputVars
  BY <1>12 DEF inputVars, demo, CursorInScript
<1>. QED
  BY <1>1, <1>2, <1>3, <1>4, <1>5, <1>6, <1>7, <1>8, <1>9, <1>10, <1>11, <1>12
     DEF InputNext, Shell

----------------------------------------------------------------------------
\* The demo of the automatic mode runs only after a whole timeout without a
\* key, and at most one of its characters gets past a waiting key.
THEOREM InputInvariant == InputSpec => []InputInv
BY InputInitInv, InputNextInv, PTL DEF InputSpec

\* In automatic mode the demo runs only after DEMO_TIMEOUT_TICKS in which that
\* mode returned no key (input_getchar_blocking with input_set_source).
THEOREM DemoSilence == InputSpec => []DemoOnlyAfterSilence
<1>. InputInv => DemoOnlyAfterSilence  BY DEF InputInv, SilenceInv
<1>. QED  BY InputInvariant, PTL

\* At most one character of the script gets past a key that is waiting: the
\* queue is polled before every demo_get_char.
THEOREM DemoYields == InputSpec => []DemoYieldsToKey
<1>. InputInv => DemoYieldsToKey  BY DEF InputInv, LateInv
<1>. QED  BY InputInvariant, PTL

\* demo_get_char reads inside the script: an existing line, and no further
\* than the character that ends it.
THEOREM CursorBounded == InputSpec => []CursorInScript
<1>. InputInv => CursorInScript  BY DEF InputInv
<1>. QED  BY InputInvariant, PTL
=============================================================================
