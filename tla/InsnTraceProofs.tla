-------------------------- MODULE InsnTraceProofs ---------------------------
(***************************************************************************)
(* Theorems about InsnTrace, for every number of records, every set of     *)
(* instructions and every bound of the clock.                              *)
(*                                                                         *)
(* The ring is only looked at through its view, the records from oldest to *)
(* newest: a push either changes the view's last record or puts a new one  *)
(* after those it keeps.  What the view says of ran, and the order of its  *)
(* half cycles, follow from that alone.                                    *)
(***************************************************************************)
EXTENDS InsnTrace, LoopTheorems, SequenceTheorems, TLAPS

-----------------------------------------------------------------------------
(* The inductive invariant. *)

Pooled == [hc : Nat, insn : Insns \cup {NoInsn}, count : Nat \ {0}, lastHc : Nat]

Completed == [insn : Insns, at : Nat]

Types ==
  /\ hc \in Nat
  /\ filled \in BOOLEAN /\ collapseRepeatsRaw \in BOOLEAN
  /\ buf \in [Slot -> Pooled]
  /\ head \in Slot
  /\ ran \in Seq(Completed)

(* Records ascend, and none is later than the clock. *)
Stamps ==
  /\ \A i \in 1 .. Size : View[i].hc <= hc
  /\ \A i \in 1 .. Size - 1 : View[i].hc < View[i + 1].hc

IInv == Types /\ Stamps /\ RingTellsWhatRan /\ RowsAreTheRing

-----------------------------------------------------------------------------
(* The ring. *)

(* The code's indices stay below twice the capacity. *)
LEMMA ModCap ==
  ASSUME NEW a \in Nat, a < Cap + Cap
  PROVE  a % Cap = (IF a < Cap THEN a ELSE a - Cap) /\ a % Cap \in Slot
  <1>1. Cap \in Nat \ {0}
    BY InsnTraceAssumption
  <1>2. CASE a < Cap
    BY <1>1, <1>2 DEF Slot
  <1>3. CASE ~(a < Cap)
    BY <1>1, <1>3 DEF Slot
  <1> QED  BY <1>2, <1>3

(* Where the records are, oldest first. *)
Placed ==
  /\ Size \in 0 .. Cap /\ Size \in Nat
  /\ \A i \in 0 .. Cap - 1 :
       /\ At(i) \in Slot
       /\ At(i) = IF filled THEN (IF head + i < Cap THEN head + i ELSE head + i - Cap) ELSE i
  /\ Size > 0 => Newest = At(Size - 1)
  /\ \A i \in 1 .. Size : View[i] = buf[At(i - 1)] /\ View[i] \in Pooled

LEMMA Places == Types => Placed
  <1> SUFFICES ASSUME Types PROVE Placed
    OBVIOUS
  <1>1. Cap \in Nat \ {0} /\ head \in 0 .. Cap - 1 /\ filled \in BOOLEAN
    BY InsnTraceAssumption DEF Types, Slot
  <1>2. Size \in 0 .. Cap /\ Size \in Nat
    BY <1>1 DEF Size
  <1>3. ASSUME NEW i \in 0 .. Cap - 1
        PROVE  /\ At(i) \in Slot
               /\ At(i) = IF filled THEN (IF head + i < Cap THEN head + i ELSE head + i - Cap)
                                    ELSE i
    <2>1. CASE filled
      <3>1. At(i) = (head + i) % Cap
        BY <2>1 DEF At
      <3> QED  BY <1>1, <2>1, <3>1, ModCap
    <2>2. CASE ~filled
      <3>1. At(i) = i % Cap
        BY <1>1, <2>2 DEF At
      <3> QED  BY <1>1, <2>2, <3>1, ModCap
    <2> QED  BY <2>1, <2>2
  <1>4. ASSUME Size > 0 PROVE Newest = At(Size - 1)
    <2>1. Newest = IF head = 0 THEN Cap - 1 ELSE head - 1
      <3>1. head - 1 + Cap \in Nat /\ head - 1 + Cap < Cap + Cap
        BY <1>1
      <3> DEFINE a == head - 1 + Cap
      <3>2. Newest = a % Cap
        BY DEF Newest
      <3> HIDE DEF a
      <3>3. Newest = IF a < Cap THEN a ELSE a - Cap
        BY <3>1, <3>2, ModCap DEF a
      <3> QED  BY <1>1, <3>3 DEF a
    <2>2. Size - 1 \in 0 .. Cap - 1
      BY <1>1, <1>2, <1>4
    <2> QED  BY <1>1, <1>3, <1>4, <2>1, <2>2 DEF Size
  <1>5. ASSUME NEW i \in 1 .. Size PROVE View[i] = buf[At(i - 1)] /\ View[i] \in Pooled
    <2>1. i - 1 \in 0 .. Cap - 1
      BY <1>1, <1>2
    <2>2. At(i - 1) \in Slot
      BY <1>3, <2>1
    <2> QED  BY <2>2 DEF View, Types
  <1> QED  BY <1>2, <1>3, <1>4, <1>5 DEF Placed

LEMMA PlacesPrime == Types' => Placed'
  BY Places, PTL

Newly(src, now) == [hc |-> now, insn |-> src, count |-> 1, lastHc |-> now]

(* What a fold makes of a record. *)
Folded(r, now) == [r EXCEPT !.lastHc = now, !.count = r.count + 1]

LEMMA FoldedFields ==
  ASSUME NEW r \in Pooled, NEW now \in Nat
  PROVE  /\ Folded(r, now) \in Pooled
         /\ Folded(r, now).hc = r.hc /\ Folded(r, now).insn = r.insn
         /\ Folded(r, now).count = r.count + 1 /\ Folded(r, now).lastHc = now
  <1> DEFINE x == [r EXCEPT !.lastHc = now]
  <1>1. x \in Pooled /\ x.hc = r.hc /\ x.insn = r.insn /\ x.count = r.count /\ x.lastHc = now
    BY DEF Pooled
  <1>2. r.count + 1 \in Nat \ {0}
    BY DEF Pooled
  <1>3. Folded(r, now) = [x EXCEPT !.count = r.count + 1]
    BY DEF Folded
  <1> HIDE DEF x
  <1> QED  BY <1>1, <1>2, <1>3 DEF Pooled

LEMMA FoldedRecord ==
  ASSUME Types, NEW now \in Nat, FoldRecord(now)
  PROVE  Newest \in Slot /\ buf' = [buf EXCEPT ![Newest] = Folded(buf[Newest], now)]
  <1>1. Cap \in Nat \ {0} /\ head \in Slot /\ buf \in [Slot -> Pooled]
    BY InsnTraceAssumption DEF Types
  <1>2. head - 1 + Cap \in Nat /\ head - 1 + Cap < Cap + Cap
    BY <1>1 DEF Slot
  <1>3. Newest \in Slot
    BY <1>2, ModCap DEF Newest
  <1> QED  BY <1>1, <1>3 DEF FoldRecord, Folded, Pooled

LEMMA PushTypes ==
  ASSUME Types, NEW src \in Insns, NEW now \in Nat, Push(src, now)
  PROVE  buf' \in [Slot -> Pooled] /\ head' \in Slot /\ filled' \in BOOLEAN
  <1>1. Cap \in Nat \ {0} /\ head \in Slot /\ buf \in [Slot -> Pooled]
    BY InsnTraceAssumption DEF Types
  <1>2. CASE AppendRecord(src, now)
    <2>1. head' \in Slot
      <3>1. head + 1 \in Nat /\ head + 1 < Cap + Cap
        BY <1>1 DEF Slot
      <3> QED  BY <1>2, <3>1, ModCap DEF AppendRecord, NextSlot
    <2>2. Newly(src, now) \in Pooled
      BY DEF Newly, Pooled
    <2>3. buf' = [buf EXCEPT ![head] = Newly(src, now)]
      BY <1>2 DEF AppendRecord, Newly
    <2>4. buf' \in [Slot -> Pooled]
      BY <1>1, <2>2, <2>3
    <2>5. filled' \in BOOLEAN
      BY <1>2 DEF AppendRecord, Types
    <2> QED  BY <2>1, <2>4, <2>5
  <1>3. CASE FoldRecord(now)
    <2>1. Newest \in Slot /\ buf' = [buf EXCEPT ![Newest] = Folded(buf[Newest], now)]
      BY <1>3, FoldedRecord
    <2>2. Folded(buf[Newest], now) \in Pooled
      BY <1>1, <2>1, FoldedFields
    <2>3. buf' \in [Slot -> Pooled]
      BY <1>1, <2>1, <2>2
    <2> QED  BY <1>3, <2>3 DEF FoldRecord, Types
  <1> QED  BY <1>2, <1>3 DEF Push

(* A push that does not fold puts its record after those the view keeps:   *)
(* all of them, or, once the ring is full, all but the oldest.             *)
Grows(v, n, v2, n2, d, r) ==
  /\ d \in {0, 1}
  /\ n2 = n + 1 - d /\ n2 \in 1 .. Cap
  /\ d = 1 => n = Cap
  /\ v2[n2] = r
  /\ \A i \in 1 .. n2 - 1 : v2[i] = v[i + d]

LEMMA RingAppends ==
  ASSUME Types, Types', NEW src \in Insns, NEW now \in Nat, AppendRecord(src, now)
  PROVE  \E d \in {0, 1} : Grows(View, Size, View', Size', d, Newly(src, now))
  <1>1. Cap \in Nat \ {0} /\ head \in 0 .. Cap - 1 /\ filled \in BOOLEAN
        /\ buf \in [Slot -> Pooled]
    BY InsnTraceAssumption DEF Types, Slot
  <1>2. buf' = [buf EXCEPT ![head] = Newly(src, now)]
    BY DEF AppendRecord, Newly
  <1>3. head' = IF head + 1 < Cap THEN head + 1 ELSE 0
    <2>1. head + 1 \in Nat /\ head + 1 < Cap + Cap
      BY <1>1
    <2>2. head' = (head + 1) % Cap
      BY DEF AppendRecord, NextSlot
    <2>3. (head + 1) % Cap = IF head + 1 < Cap THEN head + 1 ELSE head + 1 - Cap
      <3>1. CASE head + 1 < Cap
        BY <1>1, <3>1
      <3>2. CASE ~(head + 1 < Cap)
        <4>1. head + 1 = Cap
          BY <1>1, <3>2
        <4>2. Cap % Cap = 0
          BY <1>1
        <4> QED  BY <1>1, <4>1, <4>2
      <3> QED  BY <3>1, <3>2
    <2> QED  BY <1>1, <2>2, <2>3
  <1>4. filled' = (filled \/ ~(head + 1 < Cap))
    <2>1. (head' = 0) = ~(head + 1 < Cap)
      BY <1>1, <1>3
    <2> QED  BY <2>1, Zenon DEF AppendRecord
  <1>5. Placed /\ Placed'
    BY Places, PlacesPrime
  <1>6. \A s \in Slot : buf'[s] = IF s = head THEN Newly(src, now) ELSE buf[s]
    BY <1>1, <1>2
  <1>7. \A i \in 1 .. Size : View[i] = buf[At(i - 1)]
    BY <1>5 DEF Placed
  <1>8. \A i \in 1 .. Size' : View'[i] = buf'[At(i - 1)']
    BY <1>5 DEF Placed
  <1>9. CASE ~filled
    <2>1. Size = head /\ Size' = head + 1
      <3>1. CASE head + 1 < Cap
        <4>1. ~filled'
          BY <1>4, <1>9, <3>1
        <4> QED  BY <1>3, <1>9, <3>1, <4>1 DEF Size
      <3>2. CASE ~(head + 1 < Cap)
        <4>1. filled'
          BY <1>4, <3>2
        <4>2. Size' = Cap
          BY <4>1 DEF Size
        <4>3. Size = head
          BY <1>9 DEF Size
        <4>4. Cap = head + 1
          BY <1>1, <3>2
        <4> QED  BY <4>2, <4>3, <4>4
      <3> QED  BY <3>1, <3>2
    <2>2. \A i \in 0 .. Cap - 1 : At(i) = i
      BY <1>5, <1>9 DEF Placed
    <2>3. \A i \in 0 .. Cap - 1 : At(i)' = i
      <3>1. CASE head + 1 < Cap
        BY <1>4, <1>5, <1>9, <3>1 DEF Placed
      <3>2. CASE ~(head + 1 < Cap)
        <4>1. head' = 0 /\ filled'
          BY <1>3, <1>4, <3>2
        <4>2. \A i \in 0 .. Cap - 1 : At(i)' = IF 0 + i < Cap THEN 0 + i ELSE 0 + i - Cap
          BY <1>5, <4>1 DEF Placed
        <4> QED  BY <1>1, <4>2
      <3> QED  BY <3>1, <3>2
    <2>4. ASSUME NEW i \in 1 .. head + 1
          PROVE  View'[i] = IF i = head + 1 THEN Newly(src, now) ELSE View[i]
      <3>1. i - 1 \in 0 .. Cap - 1 /\ i - 1 \in Slot
        BY <1>1 DEF Slot
      <3>2. View'[i] = buf'[i - 1]
        BY <1>8, <2>1, <2>3, <3>1
      <3>3. CASE i = head + 1
        BY <1>1, <1>6, <3>1, <3>2, <3>3
      <3>4. CASE i # head + 1
        <4>1. i \in 1 .. Size /\ i - 1 # head
          BY <1>1, <2>1, <3>4
        <4>2. View[i] = buf[i - 1]
          BY <1>7, <2>2, <3>1, <4>1
        <4> QED  BY <1>6, <3>1, <3>2, <3>4, <4>1, <4>2
      <3> QED  BY <3>3, <3>4
    <2>5. Grows(View, Size, View', Size', 0, Newly(src, now))
      <3>1. Size' = Size + 1 - 0 /\ Size' \in 1 .. Cap
        BY <1>1, <2>1
      <3>2. View'[Size'] = Newly(src, now)
        BY <1>1, <2>1, <2>4
      <3>3. ASSUME NEW i \in 1 .. Size' - 1 PROVE View'[i] = View[i + 0]
        BY <1>1, <2>1, <2>4
      <3> QED  BY <3>1, <3>2, <3>3 DEF Grows
    <2> QED  BY <2>5
  <1>10. CASE filled
    <2>1. Size = Cap /\ Size' = Cap
      BY <1>4, <1>10 DEF Size
    <2>2. \A i \in 0 .. Cap - 1 : At(i) = IF head + i < Cap THEN head + i ELSE head + i - Cap
      BY <1>5, <1>10 DEF Placed
    <2>3. \A i \in 0 .. Cap - 1 : At(i)' = IF head' + i < Cap THEN head' + i ELSE head' + i - Cap
      BY <1>4, <1>5, <1>10 DEF Placed
    <2>4. \A i \in 0 .. Cap - 1 :
            At(i)' = IF i = Cap - 1 THEN head
                     ELSE IF head + i + 1 < Cap THEN head + i + 1 ELSE head + i + 1 - Cap
      BY <1>1, <1>3, <2>3
    <2>5. View'[Cap] = Newly(src, now)
      <3>1. Cap - 1 \in 0 .. Cap - 1 /\ Cap \in 1 .. Cap
        BY <1>1
      <3>2. At(Cap - 1)' = head
        BY <2>4, <3>1
      <3>3. head \in Slot
        BY <1>1 DEF Slot
      <3> QED  BY <1>6, <1>8, <2>1, <3>1, <3>2, <3>3
    <2>6. ASSUME NEW i \in 1 .. Cap - 1 PROVE View'[i] = View[i + 1]
      <3>1. i \in 0 .. Cap - 1 /\ i - 1 \in 0 .. Cap - 1 /\ i \in 1 .. Cap /\ i + 1 \in 1 .. Cap
            /\ (i + 1) - 1 = i /\ i - 1 # Cap - 1
        BY <1>1
      <3>2. At(i - 1)' = At(i) /\ At(i) # head /\ At(i) \in Slot
        <4>1. At(i - 1)' = IF head + (i - 1) + 1 < Cap THEN head + (i - 1) + 1
                                                       ELSE head + (i - 1) + 1 - Cap
          BY <2>4, <3>1
        <4>2. At(i) = IF head + i < Cap THEN head + i ELSE head + i - Cap
          BY <2>2, <3>1
        <4> QED  BY <1>1, <4>1, <4>2 DEF Slot
      <3>3. View'[i] = buf'[At(i)]
        BY <1>8, <2>1, <3>1, <3>2
      <3>4. View[i + 1] = buf[At(i)]
        BY <1>7, <2>1, <3>1
      <3> QED  BY <1>6, <3>2, <3>3, <3>4
    <2>7. Grows(View, Size, View', Size', 1, Newly(src, now))
      <3>1. Size' = Size + 1 - 1 /\ Size' \in 1 .. Cap
        BY <1>1, <2>1
      <3> QED  BY <2>1, <2>5, <2>6, <3>1 DEF Grows
    <2> QED  BY <2>7
  <1> QED  BY <1>9, <1>10

(* A push that folds changes the last record alone. *)
LEMMA RingFolds ==
  ASSUME Types, Types', NEW now \in Nat, FoldRecord(now), Size > 0
  PROVE  /\ Size' = Size
         /\ \A i \in 1 .. Size - 1 : View'[i] = View[i]
         /\ View'[Size] = Folded(View[Size], now)
  <1>1. Cap \in Nat \ {0} /\ head \in 0 .. Cap - 1 /\ filled \in BOOLEAN
        /\ buf \in [Slot -> Pooled]
    BY InsnTraceAssumption DEF Types, Slot
  <1>2. Newest \in Slot /\ buf' = [buf EXCEPT ![Newest] = Folded(buf[Newest], now)]
    BY FoldedRecord
  <1>3. Placed
    BY Places
  <1>4. Size' = Size /\ \A i \in 0 .. Cap - 1 : At(i)' = At(i)
    BY DEF FoldRecord, Size, At
  <1>5. Size \in 1 .. Cap
    BY <1>3 DEF Placed
  <1>6. Newest = At(Size - 1)
    BY <1>3 DEF Placed
  <1>7. ASSUME NEW i \in 1 .. Size
        PROVE  View'[i] = buf'[At(i - 1)] /\ View[i] = buf[At(i - 1)] /\ At(i - 1) \in Slot
    <2>1. i - 1 \in 0 .. Cap - 1
      BY <1>1, <1>5
    <2>2. At(i - 1)' = At(i - 1)
      BY <1>4, <2>1
    <2>3. View[i] = buf[At(i - 1)] /\ At(i - 1) \in Slot
      BY <1>3, <2>1 DEF Placed
    <2>4. Placed'
      BY PlacesPrime
    <2>5. View'[i] = buf'[At(i - 1)']
      BY <1>4, <2>4 DEF Placed
    <2> QED  BY <2>2, <2>3, <2>5
  <1>8. ASSUME NEW i \in 1 .. Size - 1 PROVE View'[i] = View[i]
    <2>1. i \in 1 .. Size /\ i - 1 \in 0 .. Cap - 1 /\ Size - 1 \in 0 .. Cap - 1 /\ i - 1 # Size - 1
      BY <1>1, <1>5
    <2>2. /\ At(i - 1) = IF filled THEN (IF head + (i - 1) < Cap THEN head + (i - 1)
                                                                 ELSE head + (i - 1) - Cap)
                                   ELSE i - 1
          /\ At(Size - 1) = IF filled THEN (IF head + (Size - 1) < Cap THEN head + (Size - 1)
                                                                 ELSE head + (Size - 1) - Cap)
                                      ELSE Size - 1
      BY <1>3, <2>1 DEF Placed
    <2>3. At(i - 1) # At(Size - 1)
      <3>1. Size \in Nat
        BY <1>5
      <3> HIDE DEF Size
      <3> QED  BY <1>1, <2>1, <2>2, <3>1
    <2> QED  BY <1>2, <1>6, <1>7, <2>1, <2>3
  <1>9. View'[Size] = Folded(View[Size], now)
    <2>1. Size \in 1 .. Size
      BY <1>5
    <2> QED  BY <1>1, <1>2, <1>6, <1>7, <2>1
  <1> QED  BY <1>4, <1>8, <1>9

-----------------------------------------------------------------------------
(* The latest part of what ran, folded: the same said of any view.         *)

Unfolded(first, v, n, r) ==
  \A i \in 1 .. n :
    LET next == first[i] + v[i].count
    IN  /\ next = IF i = n THEN Len(r) + 1 ELSE first[i + 1]
        /\ r[first[i]].at = v[i].hc
        /\ r[next - 1].at = v[i].lastHc
        /\ \A j \in first[i] .. next - 1 : Visible(r[j].insn) = Visible(v[i].insn)

Kept(first, n, r) == n < Cap => IF n = 0 THEN r = <<>> ELSE first[1] = 1

Told(v, n, r) ==
  \E first \in [1 .. n -> 1 .. Len(r)] : Unfolded(first, v, n, r) /\ Kept(first, n, r)

Maximal(v, n, collapse) ==
  IF collapse
    THEN \A i \in 1 .. n - 1 : Visible(v[i].insn) # Visible(v[i + 1].insn)
    ELSE \A i \in 1 .. n : v[i].count = 1

ToldByTheView ==
  RingTellsWhatRan <=> Told(View, Size, ran) /\ Maximal(View, Size, collapseRepeatsRaw)

LEMMA Telling == ToldByTheView
  BY DEF ToldByTheView, RingTellsWhatRan, Unfolds, NothingLostEarly, RunsAreMaximal, Unfolded,
         Kept, Told, Maximal

LEMMA TellingPrime == ToldByTheView'
  BY Telling, PTL

(* Nothing tells of nothing.                                               *)
LEMMA EmptyTold ==
  ASSUME NEW v
  PROVE  Told(v, 0, <<>>)
  <1> DEFINE first == [i \in 1 .. 0 |-> 1]
  <1>1. first \in [1 .. 0 -> 1 .. Len(<<>>)]
    OBVIOUS
  <1>2. \A i \in 1 .. 0 : FALSE
    OBVIOUS
  <1> HIDE DEF first
  <1>3. Unfolded(first, v, 0, <<>>)
    BY <1>2, Zenon DEF Unfolded
  <1>4. Kept(first, 0, <<>>)
    BY DEF Kept
  <1> QED  BY <1>1, <1>3, <1>4, Zenon DEF Told

LEMMA AppendTold ==
  ASSUME NEW n \in 0 .. Cap, NEW v, \A i \in 1 .. n : v[i] \in Pooled,
         NEW r \in Seq(Completed), Told(v, n, r),
         NEW src \in Insns, NEW now \in Nat,
         NEW v2, NEW n2, NEW d, Grows(v, n, v2, n2, d, Newly(src, now))
  PROVE  Told(v2, n2, Append(r, [insn |-> src, at |-> now]))
  <1> DEFINE new == [insn |-> src, at |-> now]
             r2  == Append(r, new)
  <1>0. /\ Cap \in Nat \ {0} /\ n \in Nat /\ n2 \in Nat \ {0} /\ d \in {0, 1} /\ n2 = n + 1 - d
        /\ v2[n2] = Newly(src, now) /\ \A i \in 1 .. n2 - 1 : v2[i] = v[i + d]
        /\ d = 1 => n = Cap
    BY InsnTraceAssumption DEF Grows
  <1>1. PICK first \in [1 .. n -> 1 .. Len(r)] : Unfolded(first, v, n, r) /\ Kept(first, n, r)
    BY DEF Told
  <1>2. Len(r) \in Nat /\ Len(r2) = Len(r) + 1
    OBVIOUS
  <1>3. r2[Len(r) + 1] = new /\ \A j \in 1 .. Len(r) : r2[j] = r[j]
    OBVIOUS
  <1> HIDE DEF r2
  <1> DEFINE f2 == [i \in 1 .. n2 |-> IF i = n2 THEN Len(r) + 1 ELSE first[i + d]]
  <1>4. ASSUME NEW i \in 1 .. n2 - 1
        PROVE  /\ i + d \in 1 .. n /\ i \in 1 .. n2 /\ i + 1 \in 1 .. n2 /\ i # n2
               /\ f2[i] = first[i + d] /\ f2[i] \in 1 .. Len(r)
    <2>1. i + d \in 1 .. n /\ i \in 1 .. n2 /\ i + 1 \in 1 .. n2 /\ i # n2
      BY <1>0
    <2> QED  BY <2>1
  <1>5. f2[n2] = Len(r) + 1
    BY <1>0
  <1>6. f2 \in [1 .. n2 -> 1 .. Len(r2)]
    <2> SUFFICES ASSUME NEW i \in 1 .. n2 PROVE f2[i] \in 1 .. Len(r2)
      OBVIOUS
    <2>1. CASE i = n2
      BY <1>2, <1>5, <2>1
    <2>2. CASE i # n2
      <3>1. i \in 1 .. n2 - 1
        BY <1>0, <2>2
      <3> HIDE DEF f2
      <3>2. f2[i] \in 1 .. Len(r)
        BY <1>4, <3>1
      <3> QED  BY <1>2, <3>2
    <2> QED  BY <2>1, <2>2
  <1>7. ASSUME NEW i \in 1 .. n2 - 1
        PROVE  LET next == f2[i] + v2[i].count
               IN  /\ next = IF i = n2 THEN Len(r2) + 1 ELSE f2[i + 1]
                   /\ r2[f2[i]].at = v2[i].hc
                   /\ r2[next - 1].at = v2[i].lastHc
                   /\ \A j \in f2[i] .. next - 1 : Visible(r2[j].insn) = Visible(v2[i].insn)
    <2> DEFINE k    == i + d
               next == first[k] + v[k].count
    <2>1. k \in 1 .. n /\ f2[i] = first[k] /\ f2[i] \in 1 .. Len(r) /\ i # n2 /\ v2[i] = v[k]
      BY <1>0, <1>4
    <2>2. /\ next = IF k = n THEN Len(r) + 1 ELSE first[k + 1]
          /\ r[first[k]].at = v[k].hc
          /\ r[next - 1].at = v[k].lastHc
          /\ \A j \in first[k] .. next - 1 : Visible(r[j].insn) = Visible(v[k].insn)
      BY <1>1, <2>1 DEF Unfolded
    <2>3. v[k].count \in Nat \ {0}
      BY <2>1 DEF Pooled
    <2>4. next = f2[i + 1]
      <3>1. CASE k = n
        <4>1. i + 1 = n2
          BY <1>0, <3>1
        <4> QED  BY <1>5, <2>2, <3>1, <4>1
      <3>2. CASE k # n
        <4>1. i + 1 \in 1 .. n2 - 1 /\ (i + 1) + d = k + 1
          BY <1>0, <2>1, <3>2
        <4>2. f2[i + 1] = first[k + 1]
          BY <1>4, <4>1
        <4> QED  BY <2>2, <3>2, <4>2
      <3> QED  BY <3>1, <3>2
    <2>5. next \in 1 .. Len(r) + 1
      <3>1. CASE k = n
        BY <1>2, <2>2, <3>1
      <3>2. CASE k # n
        <4>1. k + 1 \in 1 .. n
          BY <1>0, <2>1, <3>2
        <4> QED  BY <1>1, <1>2, <2>2, <3>2, <4>1
      <3> QED  BY <3>1, <3>2
    <2> HIDE DEF f2, k
    <2>6. next - 1 \in 1 .. Len(r) /\ next - 1 >= first[k]
      <3>1. first[k] \in Nat \ {0} /\ v[k].count \in Nat \ {0}
        BY <1>2, <2>1, <2>3, <2>5
      <3>2. first[k] + v[k].count \in 1 .. Len(r) + 1
        BY <2>5
      <3> QED  BY <1>2, <3>1, <3>2
    <2>7. r2[f2[i]].at = v2[i].hc
      BY <1>3, <2>1, <2>2
    <2>8. r2[next - 1].at = v2[i].lastHc
      BY <1>3, <2>1, <2>2, <2>6
    <2>9. ASSUME NEW j \in f2[i] .. next - 1 PROVE Visible(r2[j].insn) = Visible(v2[i].insn)
      <3>1. j \in 1 .. Len(r)
        BY <1>2, <2>1, <2>6
      <3>2. j \in first[k] .. next - 1
        BY <2>1
      <3>3. Visible(r[j].insn) = Visible(v[k].insn)
        BY <2>2, <3>2
      <3> QED  BY <1>3, <2>1, <3>1, <3>3
    <2> QED  BY <2>1, <2>4, <2>7, <2>8, <2>9
  <1>8. LET next == f2[n2] + v2[n2].count
        IN  /\ next = Len(r2) + 1
            /\ r2[f2[n2]].at = v2[n2].hc
            /\ r2[next - 1].at = v2[n2].lastHc
            /\ \A j \in f2[n2] .. next - 1 : Visible(r2[j].insn) = Visible(v2[n2].insn)
    <2>1. /\ v2[n2].count = 1 /\ v2[n2].hc = now /\ v2[n2].lastHc = now /\ v2[n2].insn = src
      BY <1>0 DEF Newly
    <2> HIDE DEF f2
    <2>2. f2[n2] + v2[n2].count = Len(r2) + 1 /\ Len(r2) + 1 - 1 = Len(r) + 1
      BY <1>2, <1>5, <2>1
    <2>3. \A j \in f2[n2] .. Len(r) + 1 : j = Len(r) + 1
      BY <1>2, <1>5
    <2> QED  BY <1>2, <1>3, <1>5, <2>1, <2>2, <2>3
  <1>9. Unfolded(f2, v2, n2, r2)
    <2> HIDE DEF f2
    <2> SUFFICES ASSUME NEW i \in 1 .. n2
                 PROVE  LET next == f2[i] + v2[i].count
                        IN  /\ next = IF i = n2 THEN Len(r2) + 1 ELSE f2[i + 1]
                            /\ r2[f2[i]].at = v2[i].hc
                            /\ r2[next - 1].at = v2[i].lastHc
                            /\ \A j \in f2[i] .. next - 1 :
                                 Visible(r2[j].insn) = Visible(v2[i].insn)
      BY DEF Unfolded
    <2>1. CASE i = n2
      BY <1>8, <2>1
    <2>2. CASE i # n2
      <3>1. i \in 1 .. n2 - 1
        BY <1>0, <2>2
      <3> QED  BY <1>7, <3>1
    <2> QED  BY <2>1, <2>2
  <1>10. Kept(f2, n2, r2)
    <2> SUFFICES ASSUME n2 < Cap PROVE f2[1] = 1
      BY <1>0 DEF Kept
    <2>1. d = 0 /\ n < Cap
      BY <1>0
    <2>2. CASE n = 0
      <3>1. r = <<>> /\ n2 = 1
        BY <1>0, <1>1, <2>1, <2>2 DEF Kept
      <3> QED  BY <1>5, <3>1
    <2>3. CASE n # 0
      <3>1. first[1] = 1
        BY <1>1, <2>1, <2>3 DEF Kept
      <3>2. 1 \in 1 .. n2 - 1
        BY <1>0, <2>1, <2>3
      <3>3. f2[1] = first[1 + 0]
        BY <1>4, <2>1, <3>2
      <3> QED  BY <3>1, <3>3
    <2> QED  BY <2>2, <2>3
  <1> QED
    <2> HIDE DEF f2
    <2> QED  BY <1>6, <1>9, <1>10 DEF Told, r2

LEMMA FoldTold ==
  ASSUME NEW n \in 1 .. Cap, NEW v, \A i \in 1 .. n : v[i] \in Pooled,
         NEW r \in Seq(Completed), Told(v, n, r),
         NEW src \in Insns, NEW now \in Nat, Visible(src) = Visible(v[n].insn),
         NEW v2, \A i \in 1 .. n - 1 : v2[i] = v[i], v2[n] = Folded(v[n], now)
  PROVE  Told(v2, n, Append(r, [insn |-> src, at |-> now]))
  <1> DEFINE new == [insn |-> src, at |-> now]
             r2  == Append(r, new)
  <1>0. Cap \in Nat \ {0} /\ n \in Nat \ {0}
    BY InsnTraceAssumption
  <1>1. PICK first \in [1 .. n -> 1 .. Len(r)] : Unfolded(first, v, n, r) /\ Kept(first, n, r)
    BY DEF Told
  <1>2. Len(r) \in Nat /\ Len(r2) = Len(r) + 1
    OBVIOUS
  <1>3. r2[Len(r) + 1] = new /\ \A j \in 1 .. Len(r) : r2[j] = r[j]
    OBVIOUS
  <1> HIDE DEF r2
  <1>4. first \in [1 .. n -> 1 .. Len(r2)]
    BY <1>1, <1>2
  <1>5. ASSUME NEW i \in 1 .. n
        PROVE  LET next == first[i] + v2[i].count
               IN  /\ next = IF i = n THEN Len(r2) + 1 ELSE first[i + 1]
                   /\ r2[first[i]].at = v2[i].hc
                   /\ r2[next - 1].at = v2[i].lastHc
                   /\ \A j \in first[i] .. next - 1 : Visible(r2[j].insn) = Visible(v2[i].insn)
    <2>0. PICK upto : upto = first[i] + v[i].count
      OBVIOUS
    <2>1. /\ upto = IF i = n THEN Len(r) + 1 ELSE first[i + 1]
          /\ r[first[i]].at = v[i].hc
          /\ r[upto - 1].at = v[i].lastHc
          /\ \A j \in first[i] .. upto - 1 : Visible(r[j].insn) = Visible(v[i].insn)
      BY <1>1, <2>0 DEF Unfolded
    <2>2. v[i].count \in Nat \ {0} /\ first[i] \in 1 .. Len(r)
      BY <1>1 DEF Pooled
    <2>3. upto \in 1 .. Len(r) + 1
      <3>1. CASE i = n
        BY <1>2, <2>1, <3>1
      <3>2. CASE i # n
        <4>1. i + 1 \in 1 .. n
          BY <1>0, <3>2
        <4> QED  BY <1>1, <1>2, <2>1, <3>2, <4>1
      <3> QED  BY <3>1, <3>2
    <2>4. upto - 1 \in 1 .. Len(r) /\ upto - 1 >= first[i]
      <3>1. first[i] \in Nat \ {0} /\ v[i].count \in Nat \ {0}
        BY <1>2, <2>2
      <3>2. upto \in 1 .. Len(r) + 1 /\ upto >= first[i] + 1
        BY <2>0, <2>3, <3>1
      <3>3. \A u, l, a \in Nat : u \in 1 .. l + 1 /\ u >= a + 1 /\ a # 0
                                   => u - 1 \in 1 .. l /\ u - 1 >= a
        OBVIOUS
      <3>4. upto \in Nat /\ first[i] \in Nat /\ first[i] # 0 /\ Len(r) \in Nat
        BY <1>2, <3>1, <3>2
      <3> QED  BY <3>2, <3>3, <3>4, Zenon
    <2>5. ASSUME NEW j \in first[i] .. upto - 1
          PROVE  j \in 1 .. Len(r) /\ Visible(r2[j].insn) = Visible(v[i].insn)
      <3>1. j \in 1 .. Len(r)
        BY <1>2, <2>2, <2>4
      <3>2. Visible(r[j].insn) = Visible(v[i].insn)
        BY <2>1
      <3> QED  BY <1>3, <3>1, <3>2
    <2>6. r2[first[i]].at = v[i].hc
      BY <1>3, <2>1, <2>2
    <2>7. CASE i # n
      <3>1. v2[i] = v[i]
        BY <1>0, <2>7
      <3>2. r2[upto - 1].at = v[i].lastHc
        BY <1>3, <2>1, <2>4
      <3> QED  BY <1>2, <2>0, <2>1, <2>5, <2>6, <2>7, <3>1, <3>2
    <2>8. CASE i = n
      <3>0. v[n] \in Pooled
        BY <1>0
      <3>1. /\ v2[i].count = v[i].count + 1 /\ v2[i].hc = v[i].hc /\ v2[i].lastHc = now
            /\ v2[i].insn = v[i].insn
        <4>1. v2[n] = Folded(v[n], now)
          OBVIOUS
        <4>2. /\ Folded(v[n], now).hc = v[n].hc /\ Folded(v[n], now).insn = v[n].insn
              /\ Folded(v[n], now).count = v[n].count + 1 /\ Folded(v[n], now).lastHc = now
          BY <3>0, FoldedFields
        <4> QED  BY <2>8, <4>1, <4>2
      <3>2. upto = Len(r) + 1
        BY <2>1, <2>8
      <3>3. first[i] + v2[i].count = Len(r) + 2
        <4>1. first[i] \in Nat /\ v[i].count \in Nat /\ first[i] + v[i].count = Len(r) + 1
          BY <2>0, <2>2, <3>2
        <4>2. \A a, c, l \in Nat : a + c = l + 1 => a + (c + 1) = l + 2
          OBVIOUS
        <4>3. first[i] + (v[i].count + 1) = Len(r) + 2
          BY <1>2, <4>1, <4>2, Zenon
        <4> QED  BY <3>1, <4>3
      <3>4. r2[Len(r) + 1].at = now /\ Visible(r2[Len(r) + 1].insn) = Visible(v[i].insn)
        BY <1>3, <2>8
      <3>5. Len(r) + 2 = Len(r2) + 1 /\ Len(r) + 2 - 1 = Len(r) + 1
        BY <1>2
      <3>6. ASSUME NEW j \in first[i] .. Len(r) + 1
            PROVE  Visible(r2[j].insn) = Visible(v[i].insn)
        <4>1. j = Len(r) + 1 \/ j \in first[i] .. upto - 1
          BY <1>2, <2>2, <3>2
        <4> QED  BY <2>5, <3>4, <4>1
      <3> QED  BY <2>6, <2>8, <3>1, <3>3, <3>4, <3>5, <3>6
    <2> QED  BY <2>7, <2>8
  <1>6. Unfolded(first, v2, n, r2)
    BY <1>5 DEF Unfolded
  <1>7. Kept(first, n, r2)
    BY <1>0, <1>1 DEF Kept
  <1> QED  BY <1>4, <1>6, <1>7 DEF Told, r2

(* What push compares is what a row shows.                                 *)
LEMMA SameIsVisible ==
  ASSUME NEW a, NEW b
  PROVE  SameInsn(a, b) <=> Visible(a) = Visible(b)
  <1>1. ASSUME SameInsn(a, b) PROVE Visible(a) = Visible(b)
    <2>1. a.length = b.length /\ \A k \in 0 .. a.length - 1 : a.bytes[k] = b.bytes[k]
      BY <1>1 DEF SameInsn
    <2>2. ValidBytes(a) = ValidBytes(b)
      BY <2>1 DEF ValidBytes
    <2> QED  BY <1>1, <2>2 DEF SameInsn, Visible
  <1>2. ASSUME Visible(a) = Visible(b) PROVE SameInsn(a, b)
    <2>1. /\ a.startAddr = b.startAddr /\ a.m1Type = b.m1Type /\ a.length = b.length
          /\ ValidBytes(a) = ValidBytes(b)
      BY <1>2 DEF Visible
    <2>2. ASSUME NEW k \in 0 .. a.length - 1 PROVE a.bytes[k] = b.bytes[k]
      <3>1. ValidBytes(a)[k] = a.bytes[k]
        BY DEF ValidBytes
      <3>2. ValidBytes(b)[k] = b.bytes[k]
        BY <2>1 DEF ValidBytes
      <3> QED  BY <2>1, <3>1, <3>2
    <2> QED  BY <2>1, <2>2 DEF SameInsn
  <1> QED  BY <1>1, <1>2

-----------------------------------------------------------------------------
(* A push keeps all of it. *)

LEMMA PushMaximal ==
  ASSUME Types, Types', RingTellsWhatRan, NEW src \in Insns, NEW now \in Nat, Push(src, now),
         UNCHANGED collapseRepeatsRaw
  PROVE  Maximal(View, Size, collapseRepeatsRaw)'
  <1>1. Maximal(View, Size, collapseRepeatsRaw)
    BY Telling DEF ToldByTheView
  <1>2. Placed /\ Placed'
    BY Places, PlacesPrime
  <1>3. Size \in Nat
    BY <1>2 DEF Placed
  <1>4. CASE Folds(src)
    <2>1. FoldRecord(now) /\ Size > 0 /\ collapseRepeatsRaw
      BY <1>4 DEF Push, Folds
    <2>2. /\ Size' = Size
          /\ \A i \in 1 .. Size - 1 : View'[i] = View[i]
          /\ View'[Size] = Folded(View[Size], now)
      BY <2>1, RingFolds
    <2>3. View[Size] \in Pooled
      <3>1. Size \in 1 .. Size
        BY <1>3, <2>1
      <3> QED  BY <1>2, <3>1 DEF Placed
    <2>4. Folded(View[Size], now).insn = View[Size].insn
      BY <2>3, FoldedFields
    <2>5. ASSUME NEW i \in 1 .. Size
          PROVE  View'[i].insn = View[i].insn
      <3>1. i = Size \/ i \in 1 .. Size - 1
        BY <1>3
      <3> QED  BY <2>2, <2>4, <3>1
    <2>6. ASSUME NEW i \in 1 .. Size' - 1
          PROVE  Visible(View'[i].insn) # Visible(View'[i + 1].insn)
      <3>1. i \in 1 .. Size - 1 /\ i \in 1 .. Size /\ i + 1 \in 1 .. Size
        BY <1>3, <2>2
      <3>2. Visible(View[i].insn) # Visible(View[i + 1].insn)
        BY <1>1, <2>1, <3>1 DEF Maximal
      <3> QED  BY <2>5, <3>1, <3>2
    <2> QED  BY <2>1, <2>6 DEF Maximal
  <1>5. CASE ~Folds(src)
    <2>1. AppendRecord(src, now)
      BY <1>5 DEF Push
    <2>2. PICK d \in {0, 1} : Grows(View, Size, View', Size', d, Newly(src, now))
      BY <2>1, RingAppends
    <2>3. /\ Size' = Size + 1 - d /\ Size' \in 1 .. Cap
          /\ View'[Size'] = Newly(src, now)
          /\ \A i \in 1 .. Size' - 1 : View'[i] = View[i + d]
      BY <2>2 DEF Grows
    <2>4. Newly(src, now).insn = src /\ Newly(src, now).count = 1
      BY DEF Newly
    <2>5. Size' \in Nat
      BY <1>2 DEF Placed
    <2>6. CASE collapseRepeatsRaw
      <3> SUFFICES ASSUME NEW i \in 1 .. Size' - 1
                   PROVE  Visible(View'[i].insn) # Visible(View'[i + 1].insn)
        BY <2>6 DEF Maximal
      <3>1. View'[i] = View[i + d]
        BY <2>3
      <3>2. CASE i = Size' - 1
        <4>1. i + d = Size /\ i + 1 = Size' /\ Size > 0
          BY <1>3, <2>3, <2>5, <3>2
        <4>2. View'[i] = View[Size] /\ View'[i + 1] = Newly(src, now)
          BY <2>3, <3>1, <4>1
        <4>3. ~SameInsn(src, buf[Newest].insn)
          BY <1>5, <2>6, <4>1 DEF Folds
        <4>4. buf[Newest] = View[Size]
          <5>1. Newest = At(Size - 1) /\ Size \in 1 .. Size
            BY <1>2, <1>3, <4>1 DEF Placed
          <5> QED  BY <1>2, <5>1 DEF Placed
        <4> QED  BY <2>4, <4>2, <4>3, <4>4, SameIsVisible
      <3>3. CASE i # Size' - 1
        <4>1. i + 1 \in 1 .. Size' - 1 /\ i + d \in 1 .. Size - 1 /\ (i + 1) + d = (i + d) + 1
          BY <1>3, <2>3, <2>5, <3>3
        <4>2. View'[i + 1] = View[(i + 1) + d]
          BY <2>3, <4>1
        <4>3. View'[i + 1] = View[(i + d) + 1]
          BY <4>1, <4>2
        <4>4. Visible(View[i + d].insn) # Visible(View[(i + d) + 1].insn)
          BY <1>1, <2>6, <4>1 DEF Maximal
        <4> QED  BY <3>1, <4>3, <4>4
      <3> QED  BY <3>2, <3>3
    <2>7. CASE ~collapseRepeatsRaw
      <3> SUFFICES ASSUME NEW i \in 1 .. Size' PROVE View'[i].count = 1
        BY <2>7 DEF Maximal
      <3>1. CASE i = Size'
        BY <2>3, <2>4, <3>1
      <3>2. CASE i # Size'
        <4>1. i \in 1 .. Size' - 1 /\ i + d \in 1 .. Size
          BY <1>3, <2>3, <2>5, <3>2
        <4>2. View[i + d].count = 1
          BY <1>1, <2>7, <4>1 DEF Maximal
        <4> QED  BY <2>3, <4>1, <4>2
      <3> QED  BY <3>1, <3>2
    <2> QED  BY <2>6, <2>7
  <1> QED  BY <1>4, <1>5

LEMMA PushTold ==
  ASSUME Types, Types', RingTellsWhatRan, NEW src \in Insns, NEW now \in Nat, Push(src, now),
         ran' = Append(ran, [insn |-> src, at |-> now]), UNCHANGED collapseRepeatsRaw
  PROVE  RingTellsWhatRan'
  <1>1. Told(View, Size, ran)
    BY Telling DEF ToldByTheView
  <1>2. Placed /\ ran \in Seq(Completed)
    BY Places DEF Types
  <1>3. Size \in 0 .. Cap /\ \A i \in 1 .. Size : View[i] \in Pooled
    BY <1>2 DEF Placed
  <1> HIDE DEF Size, View
  <1>4. Told(View', Size', ran')
    <2>1. CASE Folds(src)
      <3>1. FoldRecord(now) /\ Size > 0 /\ SameInsn(src, buf[Newest].insn)
        BY <2>1 DEF Push, Folds
      <3>2. /\ Size' = Size
            /\ \A i \in 1 .. Size - 1 : View'[i] = View[i]
            /\ View'[Size] = Folded(View[Size], now)
        BY <3>1, RingFolds
      <3>3. Size \in 1 .. Cap /\ Size \in 1 .. Size
        BY <1>3, <3>1
      <3>4. buf[Newest] = View[Size]
        BY <1>2, <3>1, <3>3 DEF Placed
      <3>5. Visible(src) = Visible(View[Size].insn)
        BY <3>1, <3>4, SameIsVisible
      <3>6. Told(View', Size, Append(ran, [insn |-> src, at |-> now]))
        BY <1>1, <1>2, <1>3, <3>2, <3>3, <3>5, FoldTold
      <3> QED  BY <3>2, <3>6
    <2>2. CASE ~Folds(src)
      <3>1. AppendRecord(src, now)
        BY <2>2 DEF Push
      <3>2. PICK d \in {0, 1} : Grows(View, Size, View', Size', d, Newly(src, now))
        BY <3>1, RingAppends
      <3>3. Told(View', Size', Append(ran, [insn |-> src, at |-> now]))
        BY <1>1, <1>2, <1>3, <3>2, AppendTold
      <3> QED  BY <3>3
    <2> QED  BY <2>1, <2>2
  <1>5. Maximal(View, Size, collapseRepeatsRaw)'
    BY PushMaximal
  <1> QED  BY <1>4, <1>5, TellingPrime DEF ToldByTheView

LEMMA PushStamps ==
  ASSUME Types, Types', Stamps, NEW src \in Insns, Push(src, hc + 1), hc' = hc + 1
  PROVE  Stamps'
  <1>1. Placed /\ hc \in Nat /\ hc + 1 \in Nat
    BY Places DEF Types
  <1>2. Size \in Nat /\ \A i \in 1 .. Size : View[i] \in Pooled
    BY <1>1 DEF Placed
  <1>3. /\ \A i \in 1 .. Size : View[i].hc \in Nat /\ View[i].hc <= hc
        /\ \A i \in 1 .. Size - 1 : View[i].hc < View[i + 1].hc
    BY <1>2 DEF Stamps, Pooled
  <1> HIDE DEF Size, View
  <1>4. CASE Folds(src)
    <2>1. FoldRecord(hc + 1) /\ Size > 0
      BY <1>4 DEF Push, Folds
    <2>2. /\ Size' = Size
          /\ \A i \in 1 .. Size - 1 : View'[i] = View[i]
          /\ View'[Size] = Folded(View[Size], hc + 1)
      BY <1>1, <2>1, RingFolds
    <2>3. Folded(View[Size], hc + 1).hc = View[Size].hc
      <3>1. View[Size] \in Pooled
        BY <1>2, <2>1
      <3> QED  BY <1>1, <3>1, FoldedFields
    <2>4. ASSUME NEW i \in 1 .. Size
          PROVE  View'[i].hc = View[i].hc
      <3>1. i = Size \/ i \in 1 .. Size - 1
        BY <1>2
      <3> QED  BY <2>2, <2>3, <3>1
    <2>5. ASSUME NEW i \in 1 .. Size' PROVE View'[i].hc <= hc'
      <3>1. View[i].hc \in Nat /\ View[i].hc <= hc /\ View'[i].hc = View[i].hc
        BY <1>3, <2>2, <2>4
      <3> QED  BY <1>1, <3>1
    <2>6. ASSUME NEW i \in 1 .. Size' - 1 PROVE View'[i].hc < View'[i + 1].hc
      <3>1. i \in 1 .. Size - 1 /\ i \in 1 .. Size /\ i + 1 \in 1 .. Size
        BY <1>2, <2>2
      <3> QED  BY <1>3, <2>4, <3>1
    <2> QED  BY <2>5, <2>6 DEF Stamps
  <1>5. CASE ~Folds(src)
    <2>1. AppendRecord(src, hc + 1)
      BY <1>5 DEF Push
    <2>2. PICK d \in {0, 1} : Grows(View, Size, View', Size', d, Newly(src, hc + 1))
      BY <1>1, <2>1, RingAppends
    <2>3. /\ Size' = Size + 1 - d /\ Size' \in 1 .. Cap
          /\ View'[Size'] = Newly(src, hc + 1)
          /\ \A i \in 1 .. Size' - 1 : View'[i] = View[i + d]
      BY <2>2 DEF Grows
    <2>4. View'[Size'].hc = hc + 1
      BY <2>3 DEF Newly
    <2>5. Size' \in Nat
      <3>1. Placed'
        BY PlacesPrime
      <3> QED  BY <3>1 DEF Placed
    <2>6. ASSUME NEW i \in 1 .. Size' - 1
          PROVE  /\ i + d \in 1 .. Size /\ View'[i].hc = View[i + d].hc
                 /\ View'[i].hc \in Nat /\ View'[i].hc < hc + 1
      <3>1. i + d \in 1 .. Size
        BY <1>2, <2>3, <2>5
      <3>2. View'[i].hc = View[i + d].hc
        BY <2>3
      <3>3. View[i + d].hc \in Nat /\ View[i + d].hc <= hc
        BY <1>3, <3>1
      <3> QED  BY <1>1, <3>1, <3>2, <3>3
    <2>7. ASSUME NEW i \in 1 .. Size' PROVE View'[i].hc <= hc'
      <3>1. i = Size' \/ i \in 1 .. Size' - 1
        BY <1>2, <2>3, <2>5
      <3>2. CASE i = Size'
        BY <1>1, <2>4, <3>2
      <3>3. CASE i \in 1 .. Size' - 1
        <4>1. View'[i].hc \in Nat /\ View'[i].hc < hc + 1
          BY <2>6, <3>3
        <4> QED  BY <1>1, <4>1
      <3> QED  BY <3>1, <3>2, <3>3
    <2>8. ASSUME NEW i \in 1 .. Size' - 1 PROVE View'[i].hc < View'[i + 1].hc
      <3>1. CASE i = Size' - 1
        <4>1. i + 1 = Size'
          BY <1>2, <2>3, <2>5, <3>1
        <4> QED  BY <2>4, <2>6, <4>1
      <3>2. CASE i # Size' - 1
        <4>1. i + 1 \in 1 .. Size' - 1 /\ i + d \in 1 .. Size - 1 /\ (i + 1) + d = (i + d) + 1
          BY <1>2, <2>3, <2>5, <3>2
        <4>2. View'[i + 1].hc = View[(i + 1) + d].hc
          BY <2>6, <4>1
        <4>3. View[i + d].hc < View[(i + d) + 1].hc
          BY <1>3, <4>1
        <4>4. View'[i + 1].hc = View[(i + d) + 1].hc
          BY <4>1, <4>2
        <4> QED  BY <2>6, <4>3, <4>4
      <3> QED  BY <3>1, <3>2
    <2> QED  BY <2>7, <2>8 DEF Stamps
  <1> QED  BY <1>4, <1>5

(* The rows that are built show the ring.                                  *)
LEMMA RebuildShowsTheRing ==
  ASSUME Types', Rebuild
  PROVE  RowsAreTheRing'
  <1>1. Placed'
    BY PlacesPrime
  <1>2. Size' \in Nat
    BY <1>1 DEF Placed
  <1>3. rows' = [i \in 1 .. Size' |-> [slot |-> At(i - 1)', count |-> buf'[At(i - 1)'].count]]
    BY DEF Rebuild, Size, At
  <1>4. Len(rows') = Size'
    <2> HIDE DEF Size, At
    <2> QED  BY <1>2, <1>3
  <1>5. ASSUME NEW i \in 1 .. Size'
        PROVE  rows'[i].slot = At(i - 1)' /\ rows'[i].count = View'[i].count
               /\ View'[i] = buf'[At(i - 1)']
    <2>1. View'[i] = buf'[At(i - 1)']
      BY <1>1 DEF Placed
    <2> QED  BY <1>3, <2>1
  <1>6. shown' = Contents(rows', buf') /\ throttledSeen' = TRUE
    BY DEF Rebuild
  <1>7. Contents(rows', buf') =
          [i \in 1 .. Size' |-> [insn |-> View'[i].insn, hc |-> View'[i].hc,
                                 count |-> View'[i].count]]
    <2>1. Contents(rows', buf') =
            [i \in 1 .. Size' |-> [insn |-> buf'[rows'[i].slot].insn,
                                   hc |-> buf'[rows'[i].slot].hc, count |-> rows'[i].count]]
      BY <1>4 DEF Contents
    <2> HIDE DEF Size, At, View
    <2> QED  BY <1>5, <2>1
  <1>8. (RowsAreTheRing)' <=>
          (paused' => /\ throttledSeen'
                      /\ shown' = [i \in 1 .. Size' |->
                                     [insn |-> View'[i].insn, hc |-> View'[i].hc,
                                      count |-> View'[i].count]]
                      /\ shown' = Contents(rows', buf'))
    BY DEF RowsAreTheRing, Contents
  <1> QED  BY <1>6, <1>7, <1>8

-----------------------------------------------------------------------------
(* The inductive invariant. *)

LEMMA InitInvariant ==
  ASSUME Init PROVE IInv
  <1>1. Types
    <2>1. NoInsn \in Insns \cup {NoInsn}
      OBVIOUS
    <2>2. [hc |-> 0, insn |-> NoInsn, count |-> 1, lastHc |-> 0] \in Pooled
      BY <2>1 DEF Pooled
    <2> QED  BY <2>2, InsnTraceAssumption DEF Init, Types, Slot
  <1>2. Size = 0 /\ ran = <<>> /\ Len(ran) = 0
    BY DEF Init, Size
  <1>3. Stamps
    <2> HIDE DEF Size, View
    <2> QED  BY <1>2 DEF Stamps
  <1>4. RingTellsWhatRan
    <2> HIDE DEF Size, View
    <2>1. Told(View, 0, <<>>)
      BY EmptyTold
    <2>2. Told(View, Size, ran)
      BY <1>2, <2>1
    <2>3. Maximal(View, Size, collapseRepeatsRaw)
      BY <1>2 DEF Maximal
    <2> QED  BY <2>2, <2>3, Telling DEF ToldByTheView
  <1>5. RowsAreTheRing
    <2>1. Len(rows) = 0 /\ shown = <<>> /\ throttledSeen = TRUE
      BY DEF Init
    <2>2. Contents(rows, buf) = shown
      BY <2>1 DEF Contents
    <2> HIDE DEF Size, View
    <2> QED  BY <1>2, <2>1, <2>2 DEF RowsAreTheRing
  <1> QED  BY <1>1, <1>3, <1>4, <1>5 DEF IInv

(* An emptied ring tells of nothing, and the rows are built with it.       *)
LEMMA ClearKeeps ==
  ASSUME Types, ClearTraceRing, hc' \in Nat, collapseRepeatsRaw' \in BOOLEAN
  PROVE  IInv'
  <1>1. Types'
    <2>1. Cap \in Nat \ {0}
      BY InsnTraceAssumption
    <2>2. 0 \in Slot
      BY <2>1 DEF Slot
    <2>3. buf' \in [Slot -> Pooled] /\ head' \in Slot /\ filled' \in BOOLEAN
      BY <2>2 DEF ClearTraceRing, Types
    <2>4. ran' \in Seq(Completed)
      BY DEF ClearTraceRing
    <2> QED  BY <2>3, <2>4 DEF Types
  <1>2. Size' = 0 /\ ran' = <<>> /\ Len(ran') = 0
    BY DEF ClearTraceRing, Size
  <1>3. Stamps'
    <2> HIDE DEF Size, View
    <2> QED  BY <1>2 DEF Stamps
  <1>4. RingTellsWhatRan'
    <2> HIDE DEF Size, View
    <2>1. Told(View', 0, <<>>)
      BY EmptyTold
    <2>2. Told(View', Size', ran')
      BY <1>2, <2>1
    <2>3. Maximal(View', Size', collapseRepeatsRaw')
      BY <1>2 DEF Maximal
    <2> QED  BY <2>2, <2>3, TellingPrime DEF ToldByTheView
  <1>5. RowsAreTheRing'
    BY <1>1, RebuildShowsTheRing DEF ClearTraceRing
  <1> QED  BY <1>1, <1>3, <1>4, <1>5 DEF IInv

(* What is said of the ring reads nothing else. *)
LEMMA RingUnread ==
  ASSUME IInv, UNCHANGED <<ringVars, ran, collapseRepeatsRaw>>, hc' \in Nat, hc <= hc'
  PROVE  Types' /\ Stamps' /\ RingTellsWhatRan'
  <1>1. Types'
    BY DEF IInv, Types, ringVars
  <1>2. Size' = Size /\ View' = View /\ ran' = ran /\ collapseRepeatsRaw' = collapseRepeatsRaw
    BY DEF ringVars, Size, View, At
  <1>3. Placed /\ hc \in Nat
    BY Places DEF IInv, Types
  <1> HIDE DEF Size, View
  <1>4. Stamps'
    <2>1. ASSUME NEW i \in 1 .. Size PROVE View[i].hc <= hc'
      <3>1. View[i].hc \in Nat
        BY <1>3 DEF Placed, Pooled
      <3>2. View[i].hc <= hc
        BY DEF IInv, Stamps
      <3> QED  BY <1>3, <3>1, <3>2
    <2>2. \A i \in 1 .. Size - 1 : View[i].hc < View[i + 1].hc
      BY DEF IInv, Stamps
    <2> QED  BY <1>2, <2>1, <2>2 DEF Stamps
  <1>5. RingTellsWhatRan'
    <2>1. Told(View, Size, ran) /\ Maximal(View, Size, collapseRepeatsRaw)
      BY Telling DEF IInv, ToldByTheView
    <2>2. Told(View', Size', ran') /\ Maximal(View', Size', collapseRepeatsRaw')
      BY <1>2, <2>1
    <2> QED  BY <2>2, TellingPrime DEF ToldByTheView
  <1> QED  BY <1>1, <1>4, <1>5

LEMMA RowsUnread ==
  ASSUME IInv, UNCHANGED <<paused, ringVars, throttledSeen, rows, shown>>
  PROVE  RowsAreTheRing'
  <1>1. Size' = Size /\ View' = View
    BY DEF ringVars, Size, View, At
  <1>2. Contents(rows, buf)' = Contents(rows, buf)
    BY DEF ringVars, Contents
  <1> HIDE DEF Size, View
  <1> QED  BY <1>1, <1>2 DEF IInv, RowsAreTheRing

LEMMA CompleteKeeps ==
  ASSUME IInv, NEW src \in Insns, Complete(src)
  PROVE  IInv'
  <1>1. Types /\ hc \in Nat /\ hc' = hc + 1 /\ hc' \in Nat /\ ~paused'
    BY DEF IInv, Types, Complete
  <1>2. RowsAreTheRing'
    BY <1>1 DEF RowsAreTheRing
  <1>3. CASE captureRaw
    <2>1. /\ Push(src, hc + 1) /\ ran' = Append(ran, [insn |-> src, at |-> hc + 1])
          /\ UNCHANGED collapseRepeatsRaw
      BY <1>1, <1>3 DEF Complete
    <2>2. buf' \in [Slot -> Pooled] /\ head' \in Slot /\ filled' \in BOOLEAN
      BY <1>1, <2>1, PushTypes
    <2>3. ran' \in Seq(Completed)
      <3>1. [insn |-> src, at |-> hc + 1] \in Completed
        BY <1>1 DEF Completed
      <3> QED  BY <1>1, <2>1, <3>1 DEF Types
    <2>4. Types'
      BY <1>1, <2>1, <2>2, <2>3 DEF Types
    <2>5. Stamps'
      BY <1>1, <2>1, <2>4, PushStamps DEF IInv
    <2>6. RingTellsWhatRan'
      BY <1>1, <2>1, <2>4, PushTold DEF IInv
    <2> QED  BY <1>2, <2>4, <2>5, <2>6 DEF IInv
  <1>4. CASE ~captureRaw
    <2>1. UNCHANGED <<ringVars, ran, collapseRepeatsRaw>>
      BY <1>4 DEF Complete
    <2>2. Types' /\ Stamps' /\ RingTellsWhatRan'
      BY <1>1, <2>1, RingUnread
    <2> QED  BY <1>2, <2>2 DEF IInv
  <1> QED  BY <1>3, <1>4

LEMMA NextKeeps ==
  ASSUME IInv, [Next]_vars
  PROVE  IInv'
  <1>0. hc \in Nat /\ Types /\ collapseRepeatsRaw \in BOOLEAN
    BY DEF IInv, Types
  <1>1. ASSUME NEW src \in Insns, Complete(src) PROVE IInv'
    BY <1>1, CompleteKeeps
  <1>2. CASE Clock
    <2>1. ~paused' /\ UNCHANGED <<ringVars, ran, collapseRepeatsRaw>> /\ hc' = hc + 1
      BY <1>2 DEF Clock
    <2>2. hc' \in Nat /\ hc <= hc'
      BY <1>0, <2>1
    <2> QED  BY <2>1, <2>2, RingUnread DEF IInv, RowsAreTheRing
  <1>3. CASE Flush
    <2>1. ~paused' /\ UNCHANGED <<ringVars, ran, collapseRepeatsRaw>> /\ hc' = hc
      BY <1>3 DEF Flush
    <2> QED  BY <1>0, <2>1, RingUnread DEF IInv, RowsAreTheRing
  <1>4. CASE Stop
    <2>1. UNCHANGED <<ringVars, ran, collapseRepeatsRaw>> /\ hc' = hc /\ Rebuild
      BY <1>4 DEF Stop
    <2>2. Types' /\ Stamps' /\ RingTellsWhatRan'
      BY <1>0, <2>1, RingUnread
    <2> QED  BY <2>1, <2>2, RebuildShowsTheRing DEF IInv
  <1>5. CASE Resume
    <2>1. ~paused' /\ UNCHANGED <<ringVars, ran, collapseRepeatsRaw>> /\ hc' = hc
      BY <1>5 DEF Resume
    <2> QED  BY <1>0, <2>1, RingUnread DEF IInv, RowsAreTheRing
  <1>6. ASSUME UNCHANGED <<hc, ringVars, ran, collapseRepeatsRaw, paused, throttledSeen, rows,
                           shown>>
        PROVE  IInv'
    BY <1>0, <1>6, RingUnread, RowsUnread DEF IInv
  <1>7. ASSUME NEW v \in BOOLEAN, SetCapture(v) PROVE IInv'
    <2>1. CASE v
      BY <1>6, <1>7, <2>1 DEF SetCapture, KeepTraceRing
    <2>2. CASE ~v
      BY <1>0, <1>7, <2>2, ClearKeeps DEF SetCapture
    <2> QED  BY <2>1, <2>2
  <1>8. ASSUME NEW v \in BOOLEAN, SetCollapseRepeats(v) PROVE IInv'
    BY <1>0, <1>8, ClearKeeps DEF SetCollapseRepeats
  <1>9. ASSUME NEW v \in BOOLEAN, SetTraceInstructions(v) PROVE IInv'
    <2>1. CASE ~v /\ captureRaw
      BY <1>0, <1>9, <2>1, ClearKeeps DEF SetTraceInstructions
    <2>2. CASE ~(~v /\ captureRaw)
      BY <1>6, <1>9, <2>2 DEF SetTraceInstructions, KeepTraceRing
    <2> QED  BY <2>1, <2>2
  <1>10. CASE ZeroHC
    BY <1>0, <1>10, ClearKeeps DEF ZeroHC
  <1>11. CASE Detach
    BY <1>6, <1>11 DEF Detach
  <1>12. CASE SnapToLive
    BY <1>6, <1>12 DEF SnapToLive
  <1>13. CASE UNCHANGED vars
    BY <1>6, <1>13 DEF vars
  <1> QED  BY <1>1, <1>2, <1>3, <1>4, <1>5, <1>7, <1>8, <1>9, <1>10, <1>11, <1>12, <1>13 DEF Next

LEMMA Invariant == Spec => []IInv
  <1>1. Init => IInv
    BY InitInvariant
  <1>2. IInv /\ [Next]_vars => IInv'
    BY NextKeeps
  <1> QED  BY <1>1, <1>2, PTL DEF Spec

(* A paused section shows the ring as it is, whatever the run folded,      *)
(* overwrote and flushed since the rows were last built (the records memo  *)
(* of sections/instructionTrace, onPause, clearTraceRingImperative).       *)
THEOREM RowsAreCurrent == Spec => []RowsAreTheRing
  <1>1. IInv => RowsAreTheRing
    BY DEF IInv
  <1> QED  BY <1>1, Invariant, PTL

(* The ring is the latest part of what ran, folded as far as it can be,    *)
(* and all of it until the ring is full (TraceRing.push, at, clear).       *)
THEOREM RingIsWhatRan == Spec => []RingTellsWhatRan
  <1>1. IInv => RingTellsWhatRan
    BY DEF IInv
  <1> QED  BY <1>1, Invariant, PTL

-----------------------------------------------------------------------------
(* findByHc's binary search. *)

Done(w) == w.lo > w.hi
Mid(w)  == (w.lo + w.hi) \div 2

(* One turn of the loop halves what is left. *)
Halve(h) ==
  [w \in Windows |-> IF buf[At(Mid(w))].hc <= h
                       THEN [lo |-> Mid(w) + 1, hi |-> w.hi, ans |-> Mid(w)]
                       ELSE [w EXCEPT !.hi = Mid(w) - 1]]

Left == [w \in Windows |-> IF Done(w) THEN 0 ELSE w.hi - w.lo + 1]

LEMMA HalveType ==
  ASSUME NEW h \in Nat, NEW w \in Windows, ~Done(w)
  PROVE  /\ Mid(w) \in w.lo .. w.hi
         /\ Halve(h)[w] \in Windows
         /\ Halve(h)[w] = IF buf[At(Mid(w))].hc <= h
                            THEN [lo |-> Mid(w) + 1, hi |-> w.hi, ans |-> Mid(w)]
                            ELSE [lo |-> w.lo, hi |-> Mid(w) - 1, ans |-> w.ans]
         /\ Left[Halve(h)[w]] < Left[w]
  <1>0. Cap \in Nat \ {0}
    BY InsnTraceAssumption
  <1>1. w.lo \in 0 .. Cap /\ w.hi \in -1 .. Cap - 1 /\ w.ans \in -1 .. Cap - 1 /\ w.lo <= w.hi
    BY <1>0 DEF Windows, Done
  <1>2. Mid(w) \in w.lo .. w.hi
    BY <1>0, <1>1 DEF Mid
  <1>3. Halve(h)[w] = IF buf[At(Mid(w))].hc <= h
                        THEN [lo |-> Mid(w) + 1, hi |-> w.hi, ans |-> Mid(w)]
                        ELSE [lo |-> w.lo, hi |-> Mid(w) - 1, ans |-> w.ans]
    BY DEF Halve, Windows
  <1> DEFINE v == Halve(h)[w]
  <1>4. /\ v.lo \in 0 .. Cap /\ v.hi \in -1 .. Cap - 1 /\ v.ans \in -1 .. Cap - 1
        /\ v = [lo |-> v.lo, hi |-> v.hi, ans |-> v.ans]
    <2>1. CASE buf[At(Mid(w))].hc <= h
      BY <1>0, <1>1, <1>2, <1>3, <2>1
    <2>2. CASE ~(buf[At(Mid(w))].hc <= h)
      BY <1>0, <1>1, <1>2, <1>3, <2>2
    <2> QED  BY <2>1, <2>2
  <1>5. v.hi - v.lo < w.hi - w.lo
    <2>1. CASE buf[At(Mid(w))].hc <= h
      BY <1>0, <1>1, <1>2, <1>3, <2>1
    <2>2. CASE ~(buf[At(Mid(w))].hc <= h)
      BY <1>0, <1>1, <1>2, <1>3, <2>2
    <2> QED  BY <2>1, <2>2
  <1> HIDE DEF v
  <1>6. v \in Windows
    BY <1>4 DEF Windows
  <1>7. Left[v] < Left[w]
    BY <1>0, <1>1, <1>4, <1>5, <1>6 DEF Left, Done
  <1> QED  BY <1>2, <1>3, <1>6, <1>7 DEF v

LEMMA RecordsStrictlyAscend ==
  ASSUME Types, Stamps
  PROVE  /\ \A i \in 0 .. Size - 1 : buf[At(i)].hc \in Nat /\ View[i + 1] = buf[At(i)]
         /\ \A i, j \in 0 .. Size - 1 : i < j => buf[At(i)].hc < buf[At(j)].hc
  <1> DEFINE key == [i \in 0 .. Size - 1 |-> buf[At(i)].hc]
  <1>1. Placed /\ Size \in Nat
    BY Places DEF Placed
  <1>2. ASSUME NEW i \in 0 .. Size - 1
        PROVE  buf[At(i)].hc \in Nat /\ View[i + 1] = buf[At(i)]
    <2>1. i + 1 \in 1 .. Size /\ (i + 1) - 1 = i
      BY <1>1
    <2>2. View[i + 1] = buf[At((i + 1) - 1)] /\ View[i + 1] \in Pooled
      BY <1>1, <2>1 DEF Placed
    <2>3. View[i + 1] = buf[At(i)]
      BY <2>1, <2>2
    <2> QED  BY <2>2, <2>3 DEF Pooled
  <1>3. key \in [0 .. Size - 1 -> Int]
    BY <1>2
  <1>4. \A i \in 0 .. Size - 1 : key[i] = buf[At(i)].hc
    OBVIOUS
  <1> HIDE DEF key, Size, View, At
  <1>5. ASSUME NEW i \in 0 .. Size - 2 PROVE key[i] < key[i + 1]
    <2>1. i \in 0 .. Size - 1 /\ i + 1 \in 0 .. Size - 1 /\ i + 1 \in 1 .. Size - 1
      BY <1>1
    <2>2. View[i + 1].hc < View[(i + 1) + 1].hc
      BY <2>1 DEF Stamps
    <2>3. View[i + 1] = buf[At(i)] /\ View[(i + 1) + 1] = buf[At(i + 1)]
      BY <1>2, <2>1
    <2> QED  BY <1>4, <2>1, <2>2, <2>3
  <1>6. \A i, j \in 0 .. Size - 1 : i < j => key[i] < key[j]
    BY <1>1, <1>3, <1>5, Ascends
  <1> QED  BY <1>2, <1>4, <1>6

(* The search ends, and its result is the last record that had started.    *)
LEMMA SearchFinds ==
  ASSUME Types, Stamps, NEW h \in Nat
  PROVE  /\ FindByHc(h) \in -1 .. Size - 1
         /\ \A i \in 0 .. Size - 1 : buf[At(i)].hc <= h <=> i <= FindByHc(h)
  <1> DEFINE Ended   == {w \in Windows : Done(w)}
             Ans    == [w \in Windows |-> w.ans]
             search == CHOOSE s : s = [w \in Windows |->
                         IF w.lo > w.hi THEN w.ans
                         ELSE LET mid == (w.lo + w.hi) \div 2
                              IN  s[IF buf[At(mid)].hc <= h
                                      THEN [lo |-> mid + 1, hi |-> w.hi, ans |-> mid]
                                      ELSE [w EXCEPT !.hi = mid - 1]]]
             Turn(s) == [w \in Windows |-> IF w \in Ended THEN Ans[w] ELSE s[Halve(h)[w]]]
  <1>1. Size \in 0 .. Cap /\ Cap \in Nat \ {0}
    BY Places, InsnTraceAssumption DEF Placed
  <1>2. Left \in [Windows -> 0 .. Cap]
    BY <1>1 DEF Left, Windows, Done
  <1>3. Descends(Windows, Ended, Halve(h), Cap, Left)
    BY <1>1, <1>2, HalveType DEF Descends
  <1>4. PICK f \in [Windows -> -1 .. Cap - 1] : Runs(f, Windows, Ended, Halve(h), Ans)
    <2>1. \A w \in Windows \cap Ended : Ans[w] \in -1 .. Cap - 1
      BY DEF Windows
    <2> HIDE DEF Ended, Ans
    <2> QED  BY <1>3, <2>1, LoopEnds
  <1>5. f = Turn(f)
    BY <1>4 DEF Runs
  <1>6. ASSUME NEW s
        PROVE  Turn(s) = [w \in Windows |->
                         IF w.lo > w.hi THEN w.ans
                         ELSE LET mid == (w.lo + w.hi) \div 2
                              IN  s[IF buf[At(mid)].hc <= h
                                      THEN [lo |-> mid + 1, hi |-> w.hi, ans |-> mid]
                                      ELSE [w EXCEPT !.hi = mid - 1]]]
    BY DEF Done, Mid, Halve
  <1>7. search = Turn(search)
    <2>1. f = [w \in Windows |->
                 IF w.lo > w.hi THEN w.ans
                 ELSE LET mid == (w.lo + w.hi) \div 2
                      IN  f[IF buf[At(mid)].hc <= h
                              THEN [lo |-> mid + 1, hi |-> w.hi, ans |-> mid]
                              ELSE [w EXCEPT !.hi = mid - 1]]]
      BY <1>5, <1>6
    <2>2. search = [w \in Windows |->
                      IF w.lo > w.hi THEN w.ans
                      ELSE LET mid == (w.lo + w.hi) \div 2
                           IN  search[IF buf[At(mid)].hc <= h
                                        THEN [lo |-> mid + 1, hi |-> w.hi, ans |-> mid]
                                        ELSE [w EXCEPT !.hi = mid - 1]]]
      BY <2>1, Zenon
    <2> HIDE DEF search
    <2> QED  BY <1>6, <2>2
  <1>8. FindByHc(h) = search[[lo |-> 0, hi |-> Size - 1, ans |-> -1]]
    BY DEF FindByHc
  <1> HIDE DEF search
  <1>9. Runs(search, Windows, Ended, Halve(h), Ans)
    BY <1>7 DEF Runs
  <1> DEFINE Inv  == {w \in Windows :
                        /\ w.ans = w.lo - 1 /\ w.lo <= w.hi + 1 /\ w.hi <= Size - 1
                        /\ \A i \in 0 .. Size - 1 : i < w.lo => buf[At(i)].hc <= h
                        /\ \A i \in 0 .. Size - 1 : i > w.hi => ~(buf[At(i)].hc <= h)}
             Good == {r \in -1 .. Size - 1 :
                        \A i \in 0 .. Size - 1 : buf[At(i)].hc <= h <=> i <= r}
  <1>10. \A i, j \in 0 .. Size - 1 : i < j => buf[At(i)].hc < buf[At(j)].hc
    BY RecordsStrictlyAscend
  <1>11. \A i \in 0 .. Size - 1 : buf[At(i)].hc \in Nat
    BY RecordsStrictlyAscend
  <1> HIDE DEF Size, At
  <1>12. ASSUME NEW w \in Inv
         PROVE  IF w \in Ended THEN Ans[w] \in Good ELSE Halve(h)[w] \in Inv
    <2>1. w.lo \in 0 .. Cap /\ w.hi \in -1 .. Cap - 1 /\ w.ans \in -1 .. Cap - 1
      BY DEF Windows
    <2>2. CASE w \in Ended
      <3>1. w.lo = w.hi + 1 /\ Ans[w] = w.hi /\ w.hi \in -1 .. Size - 1
        BY <1>1, <2>1, <2>2 DEF Done
      <3>2. ASSUME NEW i \in 0 .. Size - 1 PROVE buf[At(i)].hc <= h <=> i <= w.hi
        <4>1. i < w.lo \/ i > w.hi
          BY <1>1, <2>1, <3>1
        <4>2. i < w.lo <=> i <= w.hi
          BY <1>1, <2>1, <3>1
        <4> QED  BY <4>1, <4>2
      <3> QED  BY <2>2, <3>1, <3>2
    <2>3. CASE w \notin Ended
      <3> DEFINE v == Halve(h)[w]
      <3>1. /\ Mid(w) \in w.lo .. w.hi /\ v \in Windows
            /\ v = IF buf[At(Mid(w))].hc <= h
                     THEN [lo |-> Mid(w) + 1, hi |-> w.hi, ans |-> Mid(w)]
                     ELSE [lo |-> w.lo, hi |-> Mid(w) - 1, ans |-> w.ans]
        BY <2>3, HalveType
      <3> HIDE DEF v
      <3>2. Mid(w) \in 0 .. Size - 1
        BY <1>1, <2>1, <3>1
      <3>3. CASE buf[At(Mid(w))].hc <= h
        <4>1. v.lo = Mid(w) + 1 /\ v.hi = w.hi /\ v.ans = Mid(w)
          BY <3>1, <3>3
        <4>2. ASSUME NEW i \in 0 .. Size - 1, i < v.lo PROVE buf[At(i)].hc <= h
          <5>1. i = Mid(w) \/ i < Mid(w)
            BY <1>1, <3>2, <4>1, <4>2
          <5> QED  BY <1>10, <1>11, <3>2, <3>3, <5>1
        <4>3. v.ans = v.lo - 1 /\ v.lo <= v.hi + 1
          BY <1>1, <2>1, <3>1, <4>1
        <4> QED  BY <2>3, <3>1, <4>1, <4>2, <4>3 DEF v
      <3>4. CASE ~(buf[At(Mid(w))].hc <= h)
        <4>1. v.lo = w.lo /\ v.hi = Mid(w) - 1 /\ v.ans = w.ans
          BY <3>1, <3>4
        <4>2. ASSUME NEW i \in 0 .. Size - 1, i > v.hi PROVE ~(buf[At(i)].hc <= h)
          <5>1. i = Mid(w) \/ Mid(w) < i
            BY <1>1, <3>2, <4>1, <4>2
          <5> QED  BY <1>10, <1>11, <3>2, <3>4, <5>1
        <4>3. v.lo <= v.hi + 1 /\ v.hi <= Size - 1
          BY <1>1, <2>1, <3>1, <3>2, <4>1
        <4> QED  BY <2>3, <3>1, <4>1, <4>2, <4>3 DEF v
      <3> QED  BY <3>3, <3>4
    <2> QED  BY <2>2, <2>3
  <1>13. [lo |-> 0, hi |-> Size - 1, ans |-> -1] \in Inv
    <2>1. [lo |-> 0, hi |-> Size - 1, ans |-> -1] \in Windows
      BY <1>1 DEF Windows
    <2> QED  BY <1>1, <2>1
  <1>14. \A w \in Inv : search[w] \in Good
    <2>1. Inv \subseteq Windows
      OBVIOUS
    <2>2. Keeps(Inv, Ended, Halve(h), Ans, Good)
      BY <1>12 DEF Keeps
    <2> HIDE DEF Inv, Good, Ended, Ans
    <2> QED  BY <1>3, <1>9, <2>1, <2>2, LoopKeeps
  <1>15. FindByHc(h) \in Good
    <2> HIDE DEF Inv, Good
    <2> QED  BY <1>8, <1>13, <1>14
  <1> QED  BY <1>15

(* findByHc answers with the last record that had started by then, across  *)
(* the wrap and across folds (TraceRing.findByHc), in every state of every *)
(* run.                                                                    *)
THEOREM FindIsLatest == Spec => []FindsTheLatest
  <1>1. ASSUME IInv PROVE FindsTheLatest
    <2> SUFFICES ASSUME NEW target \in 0 .. HcMax
                 PROVE  LET started == {i \in 0 .. Size - 1 : View[i + 1].hc <= target}
                        IN  FindByHc(target) = IF started = {} THEN -1
                                ELSE CHOOSE i \in started : \A j \in started : j <= i
      BY DEF FindsTheLatest
    <2> DEFINE started == {i \in 0 .. Size - 1 : View[i + 1].hc <= target}
               r       == FindByHc(target)
    <2>1. Types /\ Stamps /\ target \in Nat
      BY <1>1, InsnTraceAssumption DEF IInv
    <2>2. \A i \in 0 .. Size - 1 : View[i + 1] = buf[At(i)]
      BY <2>1, RecordsStrictlyAscend
    <2>3. r \in -1 .. Size - 1 /\ \A i \in 0 .. Size - 1 : buf[At(i)].hc <= target <=> i <= r
      BY <2>1, SearchFinds
    <2>4. Size \in Nat
      BY <2>1, Places DEF Placed
    <2> HIDE DEF Size, View, At, r
    <2>5. \A i \in 0 .. Size - 1 : i \in started <=> i <= r
      BY <2>2, <2>3
    <2>6. started \subseteq 0 .. Size - 1
      OBVIOUS
    <2> HIDE DEF started
    <2>7. CASE r = -1
      <3>1. started = {}
        BY <2>4, <2>5, <2>6, <2>7
      <3> QED  BY <2>7, <3>1 DEF r, started
    <2>8. CASE r # -1
      <3>1. r \in 0 .. Size - 1 /\ r \in started
        BY <2>3, <2>4, <2>5, <2>8
      <3>2. \A j \in started : j <= r
        BY <2>5, <2>6
      <3>3. \A i \in started : (\A j \in started : j <= i) => i = r
        BY <2>3, <2>4, <2>6, <3>1, <3>2
      <3>4. r = CHOOSE i \in started : \A j \in started : j <= i
        BY <3>1, <3>2, <3>3, Zenon
      <3>5. started # {}
        BY <3>1
      <3> QED  BY <3>4, <3>5 DEF r, started
    <2> QED  BY <2>7, <2>8
  <1> QED  BY <1>1, Invariant, PTL
=============================================================================
