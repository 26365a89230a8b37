---------------------------- MODULE SectionProofs ----------------------------
(***************************************************************************)
(* Theorems about what the sections of a paused page show: the waveform    *)
(* (HwTrace, for every capacity, every set of bus states and every bound   *)
(* of the clock), and the grids, their editors and the preview (HexViews,  *)
(* for every size of memory, page, row and viewport, and every typing).    *)
(*                                                                         *)
(* HwTrace.  The inductive invariant joins the ring's geometry and order   *)
(* (RecordsAscend) with what the snapshots say (SnapshotsHold).  Neither   *)
(* survives a step without Captured: while capture is off the ring is      *)
(* empty, so that no half cycle between two snapshots went unrecorded; and *)
(* an empty ring starts over at slot 0, where the first snapshot goes.     *)
(*                                                                         *)
(* HexViews.  The inductive invariant (VInv) has where the page is, that   *)
(* the grid and the preview are current whenever the page is paused, and   *)
(* that an open editor is over the cell it was opened at unless the rows   *)
(* moved.  That the preview starts its rows where the CPU fetches, and     *)
(* decodes each from its own bytes, is then shown of any memory, through   *)
(* the table of the disassembler, form by form.                            *)
(***************************************************************************)
EXTENDS HwTrace, HexViews, LoopTheorems, SequenceTheorems, TLAPS

Captured ==
  /\ ~enabled => size = 0
  /\ size = 0 => tail = 0
  /\ Len(wave) = hc

IInv == TypeOK /\ RecordsAscend /\ SnapshotsHold /\ Captured

-----------------------------------------------------------------------------
(* The wrapped index. *)

LEMMA WrapInRing ==
  ASSUME NEW t \in Slot, NEW i \in 0 .. Capacity
  PROVE  Wrap(t + i) \in Slot
  BY HwTraceAssumption DEF Wrap, Slot

(* Distinct places of the ring are distinct slots. *)
LEMMA WrapInjective ==
  ASSUME NEW t \in Slot, NEW i \in 0 .. Capacity - 1, NEW j \in 0 .. Capacity - 1,
         Wrap(t + i) = Wrap(t + j)
  PROVE  i = j
  BY HwTraceAssumption DEF Wrap, Slot

(* The slot after the one at place i is the one at place i + 1. *)
LEMMA WrapFollows ==
  ASSUME NEW t \in Slot, NEW i \in 0 .. Capacity - 1
  PROVE  Wrap(Wrap(t + i) + 1) = Wrap(t + (i + 1))
  BY HwTraceAssumption DEF Wrap, Slot

(* Moving the tail by one moves every place by one. *)
LEMMA WrapShifts ==
  ASSUME NEW t \in Slot, NEW i \in 0 .. Capacity - 1
  PROVE  Wrap(Wrap(t + 1) + i) = Wrap(t + (i + 1))
  BY HwTraceAssumption DEF Wrap, Slot

(* One turn around the ring ends where it began. *)
LEMMA WrapTurns ==
  ASSUME NEW t \in Slot
  PROVE  Wrap(t + Capacity) = Wrap(t + 0)
  BY HwTraceAssumption DEF Wrap, Slot

LEMMA AtInRing ==
  ASSUME TypeOK, NEW i \in 0 .. Capacity
  PROVE  At(i) \in Slot
  BY WrapInRing DEF At, TypeOK

-----------------------------------------------------------------------------
(* What a slot says once a bus state is stored in it. *)

LEMMA PackedType == ASSUME NEW b \in Sample PROVE Pack(b) \in Packed
  BY DEF Pack, Packed, Sample

LEMMA PackFields ==
  ASSUME NEW b \in Sample
  PROVE  /\ Pack(b).ctl = b.ctl
         /\ IF b.addr = Floating THEN Pack(b).addrTri ELSE ~Pack(b).addrTri
         /\ IF b.data = Floating THEN Pack(b).dataTri ELSE ~Pack(b).dataTri
  <1>1. Pack(b).ctl = b.ctl
    BY DEF Pack
  <1>2. CASE b.addr = Floating
    <2>1. Pack(b).addrTri = TRUE
      BY <1>2 DEF Pack
    <2>2. Pack(b).dataTri = TRUE \/ b.data # Floating
      BY DEF Pack
    <2>3. Pack(b).dataTri = FALSE \/ b.data = Floating
      BY DEF Pack
    <2> QED  BY <1>1, <1>2, <2>1, <2>2, <2>3
  <1>3. CASE b.addr # Floating
    <2>1. Pack(b).addrTri = FALSE
      BY <1>3 DEF Pack
    <2>2. Pack(b).dataTri = TRUE \/ b.data # Floating
      BY DEF Pack
    <2>3. Pack(b).dataTri = FALSE \/ b.data = Floating
      BY DEF Pack
    <2> QED  BY <1>1, <1>3, <2>1, <2>2, <2>3
  <1> QED  BY <1>2, <1>3

LEMMA StoreTypes ==
  ASSUME TypeOK, NEW s \in Slot, NEW b \in Sample, NEW now \in Nat, Store(s, b, now)
  PROVE  /\ hcs' \in [Slot -> Nat]
         /\ state' \in [Slot -> Packed]
         /\ addrArr' \in [Slot -> Nat]
         /\ dataArr' \in [Slot -> Nat]
  <1>1. hcs' \in [Slot -> Nat]
    BY DEF TypeOK, Store
  <1>2. state' \in [Slot -> Packed]
    BY PackedType DEF TypeOK, Store
  <1>3. addrArr' \in [Slot -> Nat]
    <2>1. b.addr # Floating => b.addr \in Nat
      BY DEF Sample, Word
    <2> QED  BY <2>1 DEF TypeOK, Store
  <1>4. dataArr' \in [Slot -> Nat]
    <2>1. b.data # Floating => b.data \in Nat
      BY DEF Sample, Word
    <2> QED  BY <2>1 DEF TypeOK, Store
  <1> QED  BY <1>1, <1>2, <1>3, <1>4

(* A sample is its three fields. *)
LEMMA SampleFields ==
  ASSUME NEW b \in Sample
  PROVE  b = [ctl |-> b.ctl, addr |-> b.addr, data |-> b.data]
  BY DEF Sample

LEMMA StoreHere ==
  ASSUME TypeOK, NEW s \in Slot, NEW b \in Sample, NEW now \in Nat, Store(s, b, now)
  PROVE  ReadSnapshot(s)' = b /\ hcs'[s] = now
  <1>1. state'[s] = Pack(b) /\ hcs'[s] = now
    BY DEF TypeOK, Store
  <1>2. state'[s].ctl = b.ctl
    BY <1>1, PackFields
  <1>3. b.addr # Floating => addrArr'[s] = b.addr
    BY DEF TypeOK, Store
  <1>4. b.data # Floating => dataArr'[s] = b.data
    BY DEF TypeOK, Store
  <1>5. (IF state'[s].addrTri THEN Floating ELSE addrArr'[s]) = b.addr
    BY <1>1, <1>3, PackFields
  <1>6. (IF state'[s].dataTri THEN Floating ELSE dataArr'[s]) = b.data
    BY <1>1, <1>4, PackFields
  <1>7. ReadSnapshot(s)' = [ctl |-> b.ctl, addr |-> b.addr, data |-> b.data]
    BY <1>2, <1>5, <1>6 DEF ReadSnapshot
  <1> QED  BY <1>1, <1>7, SampleFields

LEMMA StoreElsewhere ==
  ASSUME TypeOK, NEW s \in Slot, NEW b \in Sample, NEW now \in Nat, Store(s, b, now),
         NEW t \in Slot, t # s
  PROVE  ReadSnapshot(t)' = ReadSnapshot(t) /\ hcs'[t] = hcs[t]
  <1>1. state'[t] = state[t] /\ hcs'[t] = hcs[t]
    BY DEF TypeOK, Store
  <1>2. addrArr'[t] = addrArr[t]
    BY DEF TypeOK, Store
  <1>3. dataArr'[t] = dataArr[t]
    BY DEF TypeOK, Store
  <1> QED  BY <1>1, <1>2, <1>3 DEF ReadSnapshot

(* The comparison with the head, floating values left out, is equality. *)
LEMMA UnchangedIsEqual ==
  ASSUME TypeOK, head \in Slot, NEW b \in Sample
  PROVE  UnchangedFromHead(b) <=> ReadSnapshot(head) = b
  <1>1. ASSUME UnchangedFromHead(b) PROVE ReadSnapshot(head) = b
    <2>1. state[head] = Pack(b)
      BY <1>1 DEF UnchangedFromHead
    <2>2. state[head].ctl = b.ctl
      BY <2>1, PackFields
    <2>3. (IF state[head].addrTri THEN Floating ELSE addrArr[head]) = b.addr
      BY <1>1, <2>1, PackFields DEF UnchangedFromHead
    <2>4. (IF state[head].dataTri THEN Floating ELSE dataArr[head]) = b.data
      BY <1>1, <2>1, PackFields DEF UnchangedFromHead
    <2> QED  BY <2>2, <2>3, <2>4, SampleFields DEF ReadSnapshot
  <1>2. ASSUME ReadSnapshot(head) = b PROVE UnchangedFromHead(b)
    <2>1. b.ctl = state[head].ctl
      BY <1>2 DEF ReadSnapshot
    <2>2. b.addr = IF state[head].addrTri THEN Floating ELSE addrArr[head]
      BY <1>2 DEF ReadSnapshot
    <2>3. b.data = IF state[head].dataTri THEN Floating ELSE dataArr[head]
      BY <1>2 DEF ReadSnapshot
    <2>4. addrArr[head] # Floating /\ dataArr[head] # Floating
      BY DEF TypeOK, Floating
    <2>5. state[head] \in Packed
      BY DEF TypeOK
    <2>6. state[head] = [ctl |-> state[head].ctl, addrTri |-> state[head].addrTri,
                         dataTri |-> state[head].dataTri]
      BY <2>5 DEF Packed
    <2>7. state[head].addrTri \in BOOLEAN /\ state[head].dataTri \in BOOLEAN
      BY <2>5 DEF Packed
    <2>8. state[head].addrTri = (b.addr = Floating)
      <3>1. state[head].addrTri <=> (b.addr = Floating)
        BY <2>2, <2>4
      <3> QED  BY <2>7, <3>1
    <2>9. state[head].dataTri = (b.data = Floating)
      <3>1. state[head].dataTri <=> (b.data = Floating)
        BY <2>3, <2>4
      <3> QED  BY <2>7, <3>1
    <2>10. state[head] = Pack(b)
      BY <2>1, <2>6, <2>8, <2>9 DEF Pack
    <2> QED  BY <2>2, <2>3, <2>4, <2>8, <2>9, <2>10 DEF UnchangedFromHead
  <1> QED  BY <1>1, <1>2

-----------------------------------------------------------------------------
(* A ring that advances keeps the snapshots it had, in their order, but    *)
(* for the oldest of a full ring: d of them are given up.                  *)

Shifted(d) ==
  /\ size' = (size + 1) - d
  /\ size < Capacity => d = 0
  /\ size' \in 1 .. Capacity
  /\ head' \in Slot
  /\ tail' \in Slot
  /\ head' = At(size - 1)'
  /\ \A i \in 0 .. size' - 2 :
       At(i)' = At(i + d) /\ At(i + d) \in Slot /\ At(i + d) # head'

LEMMA AdvanceShifts ==
  ASSUME TypeOK, RecordsAscend, head # -1, Advance
  PROVE  \E d \in {0, 1} : Shifted(d)
  <1>1. tail \in Slot /\ size \in 0 .. Capacity /\ Capacity \in Nat \ {0}
    BY HwTraceAssumption DEF TypeOK
  <1>2. size \in 1 .. Capacity /\ head = Wrap(tail + (size - 1))
    BY <1>1 DEF RecordsAscend, At
  <1>3. size - 1 \in 0 .. Capacity - 1
    BY <1>1, <1>2
  <1>4. head' = Wrap(tail + ((size - 1) + 1))
    BY <1>1, <1>2, <1>3, WrapFollows DEF Advance
  <1>5. (size - 1) + 1 = size
    BY <1>1
  <1>6. head' = Wrap(tail + size)
    BY <1>4, <1>5
  <1>7. CASE size < Capacity
    <2>1. size' = size + 1 /\ tail' = tail
      BY <1>7 DEF Advance
    <2>2. size \in 0 .. Capacity - 1 /\ size' - 1 = size
      BY <1>1, <1>7, <2>1
    <2>3. head' = At(size - 1)'
      BY <1>6, <2>1, <2>2 DEF At, Wrap
    <2>4. head' \in Slot
      BY <1>1, <1>6, WrapInRing
    <2>5. ASSUME NEW i \in 0 .. size' - 2
          PROVE  At(i)' = At(i + 0) /\ At(i + 0) \in Slot /\ At(i + 0) # head'
      <3>1. i \in 0 .. Capacity - 1 /\ i + 0 = i /\ i # size
        BY <1>1, <2>1, <2>2
      <3>2. At(i)' = At(i)
        BY <2>1 DEF At, Wrap
      <3>3. At(i) \in Slot
        BY <1>1, <3>1, WrapInRing DEF At
      <3>4. At(i) # head'
        BY <1>1, <1>6, <2>2, <3>1, WrapInjective DEF At
      <3> QED  BY <3>1, <3>2, <3>3, <3>4
    <2>6. size' = (size + 1) - 0 /\ size' \in 1 .. Capacity
      BY <1>1, <1>7, <2>1
    <2>7. Shifted(0)
      BY <1>1, <1>7, <2>1, <2>3, <2>4, <2>5, <2>6 DEF Shifted
    <2> QED  BY <2>7
  <1>8. CASE ~(size < Capacity)
    <2>1. size = Capacity /\ size' = size /\ tail' = Wrap(tail + 1)
      BY <1>1, <1>8 DEF Advance
    <2>2. Capacity - 1 \in 0 .. Capacity - 1 /\ 1 \in 0 .. Capacity
      BY <1>1
    <2>3. tail' \in Slot
      BY <1>1, <2>1, <2>2, WrapInRing
    <2>4. head' \in Slot
      BY <1>1, <1>6, WrapInRing
    <2>5. ASSUME NEW i \in 0 .. Capacity - 1
          PROVE  At(i)' = At(i + 1)
      <3>1. At(i)' = Wrap(Wrap(tail + 1) + i)
        BY <2>1 DEF At, Wrap
      <3> QED  BY <1>1, <3>1, WrapShifts DEF At
    <2>6. (Capacity - 1) + 1 = Capacity
      BY <1>1
    <2>7. head' = At(size - 1)'
      <3>1. At(Capacity - 1)' = At(Capacity)
        BY <2>2, <2>5, <2>6
      <3>2. At(size - 1)' = At(Capacity - 1)'
        BY <2>1 DEF At, Wrap
      <3> QED  BY <1>6, <2>1, <3>1, <3>2 DEF At
    <2>8. ASSUME NEW i \in 0 .. size' - 2
          PROVE  At(i)' = At(i + 1) /\ At(i + 1) \in Slot /\ At(i + 1) # head'
      <3>1. i \in 0 .. Capacity - 1 /\ i + 1 \in 0 .. Capacity - 1 /\ i + 1 # 0
        BY <1>1, <2>1
      <3>2. At(i + 1) \in Slot
        BY <1>1, <3>1, WrapInRing DEF At
      <3>3. head' = Wrap(tail + 0)
        BY <1>1, <1>6, <2>1, WrapTurns
      <3>4. At(i + 1) # head'
        BY <1>1, <3>1, <3>3, WrapInjective DEF At
      <3> QED  BY <2>5, <3>1, <3>2, <3>4
    <2>9. size' = (size + 1) - 1 /\ size' \in 1 .. Capacity /\ size' = Capacity
      BY <1>1, <2>1
    <2>10. Shifted(1)
      BY <1>8, <2>3, <2>4, <2>7, <2>8, <2>9 DEF Shifted
    <2> QED  BY <2>10
  <1> QED  BY <1>7, <1>8

-----------------------------------------------------------------------------
(* What every slot says, as one function of the state. *)
Says == [s \in Slot |-> ReadSnapshot(s)]

LEMMA StoreSays ==
  ASSUME TypeOK, NEW s \in Slot, NEW b \in Sample, NEW now \in Nat, Store(s, b, now)
  PROVE  Says' = [Says EXCEPT ![s] = b] /\ hcs' = [hcs EXCEPT ![s] = now]
  <1>1. ASSUME NEW t \in Slot
        PROVE  ReadSnapshot(t)' = IF t = s THEN b ELSE ReadSnapshot(t)
    BY StoreHere, StoreElsewhere
  <1>2. Says' = [t \in Slot |-> ReadSnapshot(t)']
    BY DEF Says
  <1>3. Says' = [t \in Slot |-> IF t = s THEN b ELSE ReadSnapshot(t)]
    BY <1>1, <1>2
  <1>4. Says' = [Says EXCEPT ![s] = b]
    BY <1>3 DEF Says
  <1> QED  BY <1>4 DEF Store

SaysTheBus ==
  \A i \in 0 .. size - 1 : \A h \in hcs[At(i)] .. Until(i) : Says[At(i)] = wave[h]

LEMMA SaysIsSnapshot ==
  ASSUME TypeOK
  PROVE  SnapshotsHold <=> SaysTheBus
  <1>1. \A i \in 0 .. size - 1 : Says[At(i)] = ReadSnapshot(At(i))
    <2>1. \A i \in 0 .. size - 1 : At(i) \in Slot
      BY HwTraceAssumption, AtInRing DEF TypeOK
    <2> QED  BY <2>1 DEF Says
  <1> QED  BY <1>1 DEF SnapshotsHold, SaysTheBus

LEMMA SaysIsSnapshotPrime ==
  ASSUME TypeOK'
  PROVE  SnapshotsHold' <=> SaysTheBus'
  BY SaysIsSnapshot, PTL

-----------------------------------------------------------------------------
(* The clock and the waveform after an edge. *)
LEMMA WaveGrows ==
  ASSUME TypeOK, Captured, NEW b \in Samples, wave' = Append(wave, b), hc' = hc + 1
  PROVE  /\ wave' \in Seq(Samples)
         /\ Len(wave') = hc'
         /\ wave'[hc + 1] = b
         /\ \A h \in 1 .. hc : wave'[h] = wave[h]
  <1>1. wave \in Seq(Samples) /\ Len(wave) = hc
    BY DEF TypeOK, Captured
  <1>2. Len(wave') = hc + 1 /\ wave'[hc + 1] = b
    BY <1>1, AppendProperties
  <1>3. \A h \in 1 .. hc : wave'[h] = wave[h]
    BY <1>1, AppendProperties
  <1> QED  BY <1>1, <1>2, <1>3, AppendProperties

(* Where the ring, the clock and the waveform stay as they are. *)
LEMMA RingRests ==
  ASSUME IInv, TypeOK', UNCHANGED <<ringVars, hc, wave>>, ~enabled' => size = 0
  PROVE  IInv'
  <1>1. RecordsAscend'
    BY DEF IInv, RecordsAscend, ringVars, At, Wrap
  <1>2. SnapshotsHold'
    BY DEF IInv, SnapshotsHold, ReadSnapshot, Until, ringVars, At, Wrap
  <1>3. Captured'
    BY DEF IInv, Captured, ringVars
  <1> QED  BY <1>1, <1>2, <1>3 DEF IInv

(* An empty ring. *)
LEMMA RingIsEmpty ==
  ASSUME TypeOK', Clear, Len(wave') = hc'
  PROVE  IInv'
  <1>1. size' = 0 /\ head' = -1 /\ tail' = 0
    BY DEF Clear
  <1>2. RecordsAscend'
    BY <1>1 DEF RecordsAscend
  <1>3. SnapshotsHold'
    BY <1>1 DEF SnapshotsHold
  <1>4. Captured'
    BY <1>1 DEF Captured
  <1> QED  BY <1>2, <1>3, <1>4 DEF IInv

(* An edge nothing is recorded at, capture being off. *)
LEMMA EdgeWithoutCapture ==
  ASSUME IInv, TypeOK', UNCHANGED ringVars, ~enabled, Len(wave') = hc'
  PROVE  IInv'
  <1>1. size = 0 /\ tail = 0 /\ head = -1
    BY DEF IInv, Captured, RecordsAscend
  <1>2. size' = 0 /\ tail' = 0 /\ head' = -1
    BY <1>1 DEF ringVars
  <1>3. RecordsAscend'
    BY <1>2 DEF RecordsAscend
  <1>4. SnapshotsHold'
    BY <1>2 DEF SnapshotsHold
  <1>5. Captured'
    BY <1>2 DEF Captured
  <1> QED  BY <1>3, <1>4, <1>5 DEF IInv

-----------------------------------------------------------------------------
(* Every step keeps the types. *)

LEMMA ClearTypes ==
  ASSUME TypeOK, Clear
  PROVE  /\ hcs' \in [Slot -> Nat]
         /\ state' \in [Slot -> Packed]
         /\ addrArr' \in [Slot -> Nat]
         /\ dataArr' \in [Slot -> Nat]
         /\ head' \in Slot \cup {-1}
         /\ tail' \in Slot
         /\ size' \in 0 .. Capacity
  BY HwTraceAssumption DEF TypeOK, Clear, Slot

LEMMA RecordTypes ==
  ASSUME IInv, NEW b \in Samples, NEW now \in Nat, Record(b, now)
  PROVE  /\ hcs' \in [Slot -> Nat]
         /\ state' \in [Slot -> Packed]
         /\ addrArr' \in [Slot -> Nat]
         /\ dataArr' \in [Slot -> Nat]
         /\ head' \in Slot \cup {-1}
         /\ tail' \in Slot
         /\ size' \in 0 .. Capacity
         /\ versionSeen' \in BOOLEAN
  <1>1. TypeOK /\ RecordsAscend /\ b \in Sample
    BY HwTraceAssumption DEF IInv
  <1>2. CASE UNCHANGED <<ringVars, versionSeen>>
    BY <1>1, <1>2 DEF TypeOK, ringVars
  <1>3. CASE /\ head' = 0 /\ size' = 1 /\ UNCHANGED tail
             /\ Store(0, b, now) /\ versionSeen' = FALSE
    <2>1. 0 \in Slot /\ 1 \in 0 .. Capacity
      BY HwTraceAssumption DEF Slot
    <2>2. tail' \in Slot
      BY <1>1, <1>3 DEF TypeOK
    <2> QED  BY <1>1, <1>3, <2>1, <2>2, StoreTypes
  <1>4. CASE /\ head # -1 /\ Advance /\ Store(Wrap(head + 1), b, now)
             /\ versionSeen' = FALSE
    <2>1. head' \in Slot /\ tail' \in Slot /\ size' \in 1 .. Capacity
      BY <1>1, <1>4, AdvanceShifts DEF Shifted
    <2>2. Store(head', b, now)
      BY <1>4 DEF Advance
    <2>3. size' \in 0 .. Capacity
      BY <2>1, HwTraceAssumption
    <2> QED  BY <1>1, <1>4, <2>1, <2>2, <2>3, StoreTypes
  <1> QED  BY <1>2, <1>3, <1>4 DEF Record

LEMMA EdgeTypes ==
  ASSUME IInv, NEW b \in Samples, Edge(b)
  PROVE  TypeOK'
  <1>1. TypeOK /\ Captured /\ hc + 1 \in Nat /\ Record(b, hc + 1)
    BY HwTraceAssumption DEF IInv, TypeOK, Edge
  <1>2. hc' \in 0 .. HcMax
    BY <1>1, HwTraceAssumption DEF TypeOK, Edge
  <1>3. bus' \in Samples /\ paused' \in BOOLEAN /\ enabled' \in BOOLEAN /\ detached' \in BOOLEAN
    BY <1>1 DEF TypeOK, Edge
  <1>4. wave' \in Seq(Samples)
    BY <1>1, WaveGrows DEF Edge
  <1>5. /\ hcs' \in [Slot -> Nat]
        /\ state' \in [Slot -> Packed]
        /\ addrArr' \in [Slot -> Nat]
        /\ dataArr' \in [Slot -> Nat]
    BY <1>1, RecordTypes
  <1>6. /\ head' \in Slot \cup {-1}
        /\ tail' \in Slot
        /\ size' \in 0 .. Capacity
        /\ versionSeen' \in BOOLEAN
    BY <1>1, RecordTypes
  <1> QED  BY <1>2, <1>3, <1>4, <1>5, <1>6 DEF TypeOK

-----------------------------------------------------------------------------
(* Every edge keeps the ring's order and what it says. *)

(* The first snapshot. *)
LEMMA EdgeFirst ==
  ASSUME IInv, TypeOK', NEW b \in Samples, wave' = Append(wave, b), hc' = hc + 1,
         head = -1, head' = 0, size' = 1, UNCHANGED <<tail, enabled>>, enabled,
         Store(0, b, hc + 1)
  PROVE  IInv'
  <1>1. TypeOK /\ Captured /\ RecordsAscend /\ b \in Sample /\ hc \in Nat
    BY HwTraceAssumption DEF IInv, TypeOK
  <1>2. tail = 0 /\ tail' = 0 /\ 0 \in Slot
    BY <1>1, HwTraceAssumption DEF RecordsAscend, Captured, Slot
  <1>3. At(0)' = 0
    BY <1>2, HwTraceAssumption DEF At, Wrap
  <1>4. hcs'[0] = hc + 1 /\ ReadSnapshot(0)' = b
    BY <1>1, <1>2, StoreHere
  <1>5. /\ wave'[hc + 1] = b
        /\ Len(wave') = hc'
    BY <1>1, WaveGrows
  <1>6. 0 .. size' - 1 = {0} /\ 0 .. size' - 2 = {}
    OBVIOUS
  <1>7. RecordsAscend'
    <2>1. (head' = -1) <=> (size' = 0)
      OBVIOUS
    <2>2. size' > 0 => head' = At(size - 1)'
      BY <1>2, HwTraceAssumption DEF At, Wrap
    <2>3. \A i \in 0 .. size' - 1 : hcs'[At(i)'] \in 1 .. hc'
      BY <1>1, <1>3, <1>4, <1>6
    <2> QED  BY <2>1, <2>2, <2>3, <1>6 DEF RecordsAscend
  <1>8. Until(0)' = hc + 1
    BY DEF Until
  <1>9. ReadSnapshot(At(0))' = b
    BY <1>3, <1>4 DEF ReadSnapshot
  <1>10. SnapshotsHold'
    <2>1. \A h \in hcs'[At(0)'] .. Until(0)' : ReadSnapshot(At(0))' = wave'[h]
      BY <1>1, <1>3, <1>4, <1>5, <1>8, <1>9
    <2> QED  BY <1>6, <2>1 DEF SnapshotsHold
  <1>11. Captured'
    BY <1>5 DEF Captured
  <1> QED  BY <1>7, <1>10, <1>11 DEF IInv

(* An edge at which the bus says what the head says. *)
LEMMA EdgeUnchanged ==
  ASSUME IInv, TypeOK', NEW b \in Samples, wave' = Append(wave, b), hc' = hc + 1,
         head # -1, UnchangedFromHead(b), UNCHANGED <<ringVars, enabled>>
  PROVE  IInv'
  <1>1. TypeOK /\ Captured /\ RecordsAscend /\ SnapshotsHold /\ b \in Sample /\ hc \in Nat
    <2>1. TypeOK /\ Captured /\ RecordsAscend /\ SnapshotsHold
      BY DEF IInv
    <2>2. b \in Sample
      BY HwTraceAssumption
    <2>3. hc \in Nat
      BY <2>1, HwTraceAssumption DEF TypeOK
    <2> QED  BY <2>1, <2>2, <2>3
  <1>2. head = At(size - 1) /\ size \in Nat \ {0} /\ head \in Slot
    BY <1>1, HwTraceAssumption DEF RecordsAscend, TypeOK
  <1>3. ReadSnapshot(At(size - 1)) = b
    BY <1>1, <1>2, UnchangedIsEqual
  <1>4. /\ wave'[hc + 1] = b
        /\ \A h \in 1 .. hc : wave'[h] = wave[h]
        /\ Len(wave') = hc'
    BY <1>1, WaveGrows
  <1>5. RecordsAscend'
    <2>1. \A i \in 0 .. size - 1 : hcs[At(i)] \in 1 .. hc'
      BY <1>1 DEF RecordsAscend
    <2> QED  BY <1>1, <2>1 DEF RecordsAscend, ringVars, At, Wrap
  <1>6. ASSUME NEW i \in 0 .. size - 1, NEW h \in hcs[At(i)] .. Until(i)'
        PROVE  ReadSnapshot(At(i)) = wave'[h]
    <2>1. hcs[At(i)] \in 1 .. hc /\ hcs[At(i)] \in Nat
      BY <1>1 DEF RecordsAscend
    <2>2. CASE i = size - 1
      <3>1. Until(i) = hc /\ Until(i)' = hc + 1
        BY <2>2 DEF Until, ringVars
      <3>2. h = hc + 1 \/ h \in hcs[At(i)] .. hc
        BY <1>1, <2>1, <3>1
      <3>3. h \in hcs[At(i)] .. hc => h \in 1 .. hc
        BY <1>1, <2>1
      <3> QED  BY <1>1, <1>3, <1>4, <2>2, <3>1, <3>2, <3>3 DEF SnapshotsHold
    <2>3. CASE i # size - 1
      <3>1. Until(i)' = Until(i) /\ Until(i) = hcs[At(i + 1)] - 1
        BY <2>3 DEF Until, ringVars, At, Wrap
      <3>2. hcs[At(i + 1)] \in 1 .. hc
        BY <1>1, <1>2, <2>3 DEF RecordsAscend
      <3>3. h \in 1 .. hc
        BY <1>1, <2>1, <3>1, <3>2
      <3> QED  BY <1>1, <1>4, <3>1, <3>3 DEF SnapshotsHold
    <2> QED  BY <2>2, <2>3
  <1>7. SnapshotsHold'
    <2>1. /\ \A i : At(i)' = At(i)
          /\ \A i : ReadSnapshot(At(i))' = ReadSnapshot(At(i))
          /\ hcs' = hcs /\ size' = size
      BY DEF ReadSnapshot, ringVars, At, Wrap
    <2> QED  BY <1>6, <2>1 DEF SnapshotsHold
  <1>8. Captured'
    BY <1>1, <1>4 DEF Captured, ringVars
  <1> QED  BY <1>5, <1>7, <1>8 DEF IInv

(* A snapshot stored at the new head, and the others where they were moved. *)
LEMMA StoredAndShifted ==
  ASSUME TypeOK, size \in 1 .. Capacity, NEW d \in {0, 1}, Shifted(d),
         NEW b \in Sample, NEW now \in Nat, Store(head', b, now)
  PROVE  /\ hcs'[head'] = now /\ Says'[head'] = b
         /\ \A i \in 0 .. size' - 2 :
              hcs'[At(i)'] = hcs[At(i + d)] /\ Says'[At(i)'] = Says[At(i + d)]
  <1>1. head' \in Slot
    BY DEF Shifted
  <1>2. Says' = [Says EXCEPT ![head'] = b] /\ hcs' = [hcs EXCEPT ![head'] = now]
    BY <1>1, StoreSays
  <1>3. hcs'[head'] = now /\ Says'[head'] = b
    BY <1>1, <1>2 DEF Says, TypeOK
  <1>4. ASSUME NEW i \in 0 .. size' - 2
        PROVE  hcs'[At(i)'] = hcs[At(i + d)] /\ Says'[At(i)'] = Says[At(i + d)]
    <2>1. At(i)' = At(i + d) /\ At(i + d) \in Slot /\ At(i + d) # head'
      BY DEF Shifted
    <2> QED  BY <1>2, <2>1 DEF Says, TypeOK
  <1> QED  BY <1>3, <1>4

(* An edge that stores a snapshot after the head, d of the oldest given up. *)
LEMMA EdgeShifts ==
  ASSUME IInv, TypeOK', NEW b \in Samples, wave' = Append(wave, b), hc' = hc + 1,
         enabled, UNCHANGED enabled, size > 0,
         NEW d \in {0, 1}, Shifted(d), Store(head', b, hc + 1)
  PROVE  IInv'
  <1>1. TypeOK /\ Captured /\ RecordsAscend /\ SnapshotsHold
    BY DEF IInv
  <1>2. b \in Sample /\ hc \in Nat /\ size \in Nat \ {0}
    BY <1>1, HwTraceAssumption DEF TypeOK
  <1>3. /\ wave'[hc + 1] = b
        /\ \A h \in 1 .. hc : wave'[h] = wave[h]
        /\ Len(wave') = hc'
    BY <1>1, WaveGrows
  <1>4. /\ size' = (size + 1) - d
        /\ size' \in 1 .. Capacity
        /\ head' \in Slot
        /\ head' = At(size - 1)'
    BY DEF Shifted
  <1>5. size \in 1 .. Capacity
    BY <1>1, <1>2 DEF TypeOK
  <1>6. Says'[head'] = b /\ hcs'[head'] = hc + 1
    BY <1>1, <1>2, <1>5, StoredAndShifted
  <1>7. ASSUME NEW i \in 0 .. size' - 2
        PROVE  /\ hcs'[At(i)'] = hcs[At(i + d)]
               /\ Says'[At(i)'] = Says[At(i + d)]
               /\ hcs[At(i + d)] \in 1 .. hc
               /\ i + d \in 0 .. size - 1
    <2>1. i + d \in 0 .. size - 1
      BY <1>2, <1>4
    <2>2. hcs'[At(i)'] = hcs[At(i + d)] /\ Says'[At(i)'] = Says[At(i + d)]
      BY <1>1, <1>2, <1>5, StoredAndShifted
    <2>3. hcs[At(i + d)] \in 1 .. hc
      BY <1>1, <2>1 DEF RecordsAscend
    <2> QED  BY <2>1, <2>2, <2>3
  <1>8. RecordsAscend'
    <2>1. (head' = -1) <=> (size' = 0)
      BY <1>4, HwTraceAssumption DEF Slot
    <2>2. ASSUME NEW i \in 0 .. size' - 1
          PROVE  hcs'[At(i)'] \in 1 .. hc'
      <3>1. CASE i = size' - 1
        BY <1>2, <1>4, <1>6, <3>1
      <3>2. CASE i # size' - 1
        <4>1. i \in 0 .. size' - 2
          BY <1>4, <3>2, HwTraceAssumption
        <4> QED  BY <1>2, <1>7, <4>1
      <3> QED  BY <3>1, <3>2
    <2>3. ASSUME NEW i \in 0 .. size' - 2
          PROVE  hcs'[At(i)'] < hcs'[At(i + 1)']
      <3>1. CASE i = size' - 2
        <4>1. i + 1 = size' - 1
          BY <1>4, <3>1, HwTraceAssumption
        <4>2. hcs'[At(i + 1)'] = hc + 1
          BY <1>4, <1>6, <4>1
        <4> QED  BY <1>2, <1>7, <4>2
      <3>2. CASE i # size' - 2
        <4>1. i + 1 \in 0 .. size' - 2 /\ i + d \in 0 .. size - 2 /\ (i + 1) + d = (i + d) + 1
          BY <1>2, <1>4, <3>2, HwTraceAssumption
        <4>2. hcs'[At(i + 1)'] = hcs[At((i + d) + 1)]
          BY <1>7, <4>1
        <4>3. hcs[At(i + d)] < hcs[At((i + d) + 1)]
          BY <1>1, <4>1 DEF RecordsAscend
        <4> QED  BY <1>7, <4>2, <4>3
      <3> QED  BY <3>1, <3>2
    <2> QED  BY <1>4, <2>1, <2>2, <2>3 DEF RecordsAscend
  <1>9. ASSUME NEW i \in 0 .. size' - 1, NEW h \in hcs'[At(i)'] .. Until(i)'
        PROVE  Says'[At(i)'] = wave'[h]
    <2>1. CASE i = size' - 1
      <3>1. Until(i)' = hc + 1
        BY <2>1 DEF Until
      <3>2. h = hc + 1
        BY <1>2, <1>4, <1>6, <2>1, <3>1
      <3> QED  BY <1>3, <1>4, <1>6, <2>1, <3>2
    <2>2. CASE i # size' - 1
      <3>1. i \in 0 .. size' - 2
        BY <1>4, <2>2, HwTraceAssumption
      <3>2. Until(i)' = hcs'[At(i + 1)'] - 1
        BY <2>2 DEF Until
      <3>3. Until(i)' = Until(i + d) /\ Until(i + d) \in 0 .. hc
        <4>1. CASE i = size' - 2
          <5>1. i + 1 = size' - 1 /\ i + d = size - 1
            BY <1>2, <1>4, <4>1, HwTraceAssumption
          <5>2. hcs'[At(i + 1)'] = hc + 1
            BY <1>4, <1>6, <5>1
          <5> QED  BY <1>2, <3>2, <5>1, <5>2 DEF Until
        <4>2. CASE i # size' - 2
          <5>1. i + 1 \in 0 .. size' - 2 /\ (i + 1) + d = (i + d) + 1 /\ i + d # size - 1
            BY <1>2, <1>4, <3>1, <4>2, HwTraceAssumption
          <5>2. hcs'[At(i + 1)'] = hcs[At((i + d) + 1)] /\ hcs[At((i + d) + 1)] \in 1 .. hc
            BY <1>7, <5>1
          <5> QED  BY <1>2, <3>2, <5>1, <5>2 DEF Until
        <4> QED  BY <4>1, <4>2
      <3>4. h \in hcs[At(i + d)] .. Until(i + d)
        BY <1>7, <3>1, <3>3
      <3>5. Says[At(i + d)] = wave[h]
        BY <1>1, <1>7, <3>1, <3>4, SaysIsSnapshot DEF SaysTheBus
      <3>6. h \in 1 .. hc
        BY <1>2, <1>7, <3>1, <3>3, <3>4
      <3> QED  BY <1>3, <1>7, <3>1, <3>5, <3>6
    <2> QED  BY <2>1, <2>2
  <1>10. SnapshotsHold'
    <2>1. SaysTheBus'
      BY <1>9 DEF SaysTheBus
    <2> QED  BY <2>1, SaysIsSnapshotPrime
  <1>11. Captured'
    BY <1>3, <1>4 DEF Captured
  <1> QED  BY <1>8, <1>10, <1>11 DEF IInv

LEMMA EdgeKeeps ==
  ASSUME IInv, NEW b \in Samples, Edge(b)
  PROVE  IInv'
  <1>1. TypeOK' /\ wave' = Append(wave, b) /\ hc' = hc + 1 /\ enabled' = enabled
    BY EdgeTypes DEF Edge
  <1>2. TypeOK /\ RecordsAscend /\ Captured
    BY DEF IInv
  <1>3. CASE ~enabled /\ UNCHANGED ringVars
    <2>1. Len(wave') = hc'
      BY <1>1, <1>2, WaveGrows
    <2> QED  BY <1>1, <1>3, <2>1, EdgeWithoutCapture
  <1>4. CASE enabled /\ head = -1 /\ head' = 0 /\ size' = 1 /\ UNCHANGED tail /\ Store(0, b, hc + 1)
    BY <1>1, <1>4, EdgeFirst
  <1>5. CASE enabled /\ head # -1 /\ UnchangedFromHead(b) /\ UNCHANGED ringVars
    BY <1>1, <1>5, EdgeUnchanged
  <1>6. CASE enabled /\ head # -1 /\ Advance /\ Store(Wrap(head + 1), b, hc + 1)
    <2>1. PICK d \in {0, 1} : Shifted(d)
      BY <1>2, <1>6, AdvanceShifts
    <2>2. Store(head', b, hc + 1)
      BY <1>6 DEF Advance
    <2>3. size > 0
      BY <1>2, <1>6, HwTraceAssumption DEF RecordsAscend, TypeOK
    <2> QED  BY <1>1, <1>6, <2>1, <2>2, <2>3, EdgeShifts
  <1>7. Record(b, hc + 1)
    BY DEF Edge
  <1> QED  BY <1>3, <1>4, <1>5, <1>6, <1>7 DEF Record

-----------------------------------------------------------------------------
LEMMA InitHolds == Init => IInv
  <1> SUFFICES ASSUME Init PROVE IInv
    OBVIOUS
  <1>1. TypeOK
    <2>1. 0 \in Slot /\ 0 \in 0 .. Capacity /\ 0 \in 0 .. HcMax
      BY HwTraceAssumption DEF Slot
    <2>2. state \in [Slot -> Packed]
      <3>1. [ctl |-> 0, addrTri |-> FALSE, dataTri |-> FALSE] \in Packed
        BY DEF Packed
      <3> QED  BY <3>1 DEF Init
    <2>3. wave \in Seq(Samples)
      BY DEF Init
    <2>4. hcs \in [Slot -> Nat] /\ addrArr \in [Slot -> Nat] /\ dataArr \in [Slot -> Nat]
      BY DEF Init
    <2>5. hc \in 0 .. HcMax /\ head \in Slot \cup {-1} /\ tail \in Slot /\ size \in 0 .. Capacity
      BY <2>1 DEF Init
    <2>6. /\ bus \in Samples /\ paused \in BOOLEAN /\ enabled \in BOOLEAN
          /\ versionSeen \in BOOLEAN /\ detached \in BOOLEAN
      BY DEF Init
    <2> QED  BY <2>2, <2>3, <2>4, <2>5, <2>6 DEF TypeOK
  <1>2. RecordsAscend
    BY DEF Init, RecordsAscend
  <1>3. SnapshotsHold
    BY DEF Init, SnapshotsHold
  <1>4. Captured
    BY DEF Init, Captured
  <1> QED  BY <1>1, <1>2, <1>3, <1>4 DEF IInv

LEMMA SwitchKeeps ==
  ASSUME IInv, NEW v \in BOOLEAN, SetCapture(v)
  PROVE  IInv'
  <1>1. TypeOK /\ Captured
    BY DEF IInv
  <1>2. CASE v
    <2>1. UNCHANGED ringVars /\ hc' = hc /\ wave' = wave /\ enabled' /\ detached' = detached
      BY <1>2 DEF SetCapture
    <2>2. TypeOK'
      BY <1>1, <2>1 DEF TypeOK, SetCapture, ringVars
    <2> QED  BY <2>1, <2>2, RingRests
  <1>3. CASE ~v
    <2>1. Clear /\ hc' = hc /\ wave' = wave /\ detached' = FALSE
      BY <1>3 DEF SetCapture
    <2>2. TypeOK'
      <3>1. /\ hc' \in 0 .. HcMax /\ bus' \in Samples /\ paused' \in BOOLEAN
            /\ enabled' \in BOOLEAN /\ versionSeen' \in BOOLEAN /\ detached' \in BOOLEAN
            /\ wave' \in Seq(Samples)
        BY <1>1, <2>1 DEF TypeOK, SetCapture
      <3> QED  BY <1>1, <2>1, <3>1, ClearTypes DEF TypeOK
    <2>3. Len(wave') = hc'
      BY <1>1, <2>1 DEF Captured
    <2> QED  BY <2>1, <2>2, <2>3, RingIsEmpty
  <1> QED  BY <1>2, <1>3

LEMMA ZeroKeeps ==
  ASSUME IInv, ZeroHC
  PROVE  IInv'
  <1>1. TypeOK /\ Clear
    BY DEF IInv, ZeroHC
  <1>2. /\ hc' \in 0 .. HcMax /\ bus' \in Samples /\ paused' \in BOOLEAN
        /\ enabled' \in BOOLEAN /\ versionSeen' \in BOOLEAN /\ detached' \in BOOLEAN
        /\ wave' \in Seq(Samples)
    <2>1. hc' \in 0 .. HcMax /\ wave' \in Seq(Samples)
      BY HwTraceAssumption DEF ZeroHC
    <2>2. bus' \in Samples /\ paused' \in BOOLEAN /\ enabled' \in BOOLEAN
      BY <1>1 DEF TypeOK, ZeroHC
    <2>3. versionSeen' \in BOOLEAN /\ detached' \in BOOLEAN
      BY DEF ZeroHC
    <2> QED  BY <2>1, <2>2, <2>3
  <1>3. TypeOK'
    BY <1>1, <1>2, ClearTypes DEF TypeOK
  <1>4. Len(wave') = hc'
    BY DEF ZeroHC
  <1> QED  BY <1>1, <1>3, <1>4, RingIsEmpty

LEMMA NextKeeps == IInv /\ [Next]_vars => IInv'
  <1> SUFFICES ASSUME IInv, [Next]_vars PROVE IInv'
    OBVIOUS
  <1>1. TypeOK /\ (~enabled => size = 0)
    BY DEF IInv, Captured
  <1>2. ASSUME NEW b \in Samples, Edge(b) PROVE IInv'
    BY <1>2, EdgeKeeps
  <1>3. ASSUME NEW stop \in BOOLEAN, FrameEnd(stop) PROVE IInv'
    <2>1. TypeOK'
      BY <1>1, <1>3 DEF TypeOK, FrameEnd, ringVars
    <2> QED  BY <1>1, <1>3, <2>1, RingRests DEF FrameEnd
  <1>4. CASE Resume
    <2>1. TypeOK'
      BY <1>1, <1>4 DEF TypeOK, Resume, ringVars
    <2> QED  BY <1>1, <1>4, <2>1, RingRests DEF Resume
  <1>5. ASSUME NEW v \in BOOLEAN, SetCapture(v) PROVE IInv'
    BY <1>5, SwitchKeeps
  <1>6. CASE Detach
    <2>1. TypeOK'
      BY <1>1, <1>6 DEF TypeOK, Detach, ringVars
    <2> QED  BY <1>1, <1>6, <2>1, RingRests DEF Detach
  <1>7. CASE SnapToLive
    <2>1. TypeOK'
      BY <1>1, <1>7 DEF TypeOK, SnapToLive, ringVars
    <2> QED  BY <1>1, <1>7, <2>1, RingRests DEF SnapToLive
  <1>8. CASE ZeroHC
    BY <1>8, ZeroKeeps
  <1>9. CASE UNCHANGED vars
    <2>1. TypeOK'
      BY <1>1, <1>9 DEF TypeOK, vars, ringVars
    <2> QED  BY <1>1, <1>9, <2>1, RingRests DEF vars
  <1> QED  BY <1>2, <1>3, <1>4, <1>5, <1>6, <1>7, <1>8, <1>9 DEF Next

(* The ring's geometry, order and contents hold together through every     *)
(* order of record, clear and the verbs over them.                         *)
THEOREM Invariant == Spec => []IInv
  BY InitHolds, NextKeeps, PTL DEF Spec

(* The ring's arrays and indices keep their ranges, at every capacity: no  *)
(* wrapped index leaves the arrays.                                        *)
THEOREM TypeCorrect == Spec => []TypeOK
  <1>1. IInv => TypeOK
    BY DEF IInv
  <1> QED  BY <1>1, Invariant, PTL

(* The snapshots run in order from tail to head: what latestBefore's       *)
(* binary search and rangeView's early return take for granted.            *)
THEOREM RecordsStayOrdered == Spec => []RecordsAscend
  <1>1. IInv => RecordsAscend
    BY DEF IInv
  <1> QED  BY <1>1, Invariant, PTL

(* No edge between two snapshots had another bus state than the first of   *)
(* them says, floating values included.                                    *)
THEOREM SnapshotsAreTrue == Spec => []SnapshotsHold
  <1>1. IInv => SnapshotsHold
    BY DEF IInv
  <1> QED  BY <1>1, Invariant, PTL

-----------------------------------------------------------------------------
(* The ring, read oldest first, as a sequence. *)

Entry == [at : Nat, value : Sample]

LEMMA SnapshotType ==
  ASSUME TypeOK, NEW s \in Slot
  PROVE  ReadSnapshot(s) \in Sample
  <1>1. state[s] \in Packed /\ addrArr[s] \in Nat /\ dataArr[s] \in Nat
    BY DEF TypeOK
  <1>2. state[s].ctl \in Nat
    BY <1>1 DEF Packed
  <1>3. (IF state[s].addrTri THEN Floating ELSE addrArr[s]) \in Word
    BY <1>1 DEF Word
  <1>4. (IF state[s].dataTri THEN Floating ELSE dataArr[s]) \in Word
    BY <1>1 DEF Word
  <1> QED  BY <1>2, <1>3, <1>4 DEF ReadSnapshot, Sample

ReadsBack ==
  /\ Changes \in Seq(Entry)
  /\ Len(Changes) = size
  /\ \A i \in 1 .. size :
       Changes[i] = [at |-> hcs[At(i - 1)], value |-> Says[At(i - 1)]]

LEMMA ChangesReadBack ==
  ASSUME TypeOK
  PROVE  ReadsBack
  <1>1. size \in Nat
    BY HwTraceAssumption DEF TypeOK
  <1>2. ASSUME NEW i \in 1 .. size
        PROVE  /\ [at |-> hcs[At(i - 1)], value |-> ReadSnapshot(At(i - 1))] \in Entry
               /\ ReadSnapshot(At(i - 1)) = Says[At(i - 1)]
    <2>1. At(i - 1) \in Slot
      BY <1>1, HwTraceAssumption, AtInRing DEF TypeOK
    <2>2. hcs[At(i - 1)] \in Nat /\ ReadSnapshot(At(i - 1)) \in Sample
      BY <2>1, SnapshotType DEF TypeOK
    <2> QED  BY <2>1, <2>2 DEF Entry, Says
  <1>3. Changes \in [1 .. size -> Entry]
    BY <1>2 DEF Changes
  <1>4. Changes \in Seq(Entry) /\ Len(Changes) = size
    BY <1>1, <1>3
  <1>5. \A i \in 1 .. size :
          Changes[i] = [at |-> hcs[At(i - 1)], value |-> Says[At(i - 1)]]
    BY <1>2 DEF Changes
  <1> QED  BY <1>4, <1>5 DEF ReadsBack

LEMMA ChangesReadBackPrime ==
  ASSUME TypeOK'
  PROVE  ReadsBack'
  BY ChangesReadBack, PTL

(* The step of the ring that stores a snapshot is the log's. *)

LEMMA FirstIsLogged ==
  ASSUME ReadsBack, ReadsBack', size = 0, size' = 1,
         NEW b \in Sample, NEW now \in Nat,
         hcs'[At(0)'] = now, Says'[At(0)'] = b
  PROVE  Changes' = Log!Seen(Changes, b, now)
  <1> DEFINE e == [at |-> now, value |-> b]
  <1>1. e \in Entry
    BY DEF Entry
  <1>2. Changes \in Seq(Entry) /\ Len(Changes) = 0 /\ Changes = <<>>
    BY DEF ReadsBack
  <1>3. Changes' \in Seq(Entry) /\ Len(Changes') = 1
    BY DEF ReadsBack
  <1>4. Changes'[1] = e
    <2>1. Changes'[1] = [at |-> hcs'[At(1 - 1)'], value |-> Says'[At(1 - 1)']]
      BY DEF ReadsBack
    <2>2. 1 - 1 = 0
      OBVIOUS
    <2> QED  BY <2>1, <2>2
  <1> HIDE DEF e
  <1>5. /\ Append(Changes, e) \in Seq(Entry)
        /\ Len(Append(Changes, e)) = 1
        /\ Append(Changes, e)[1] = e
    BY <1>1, <1>2, AppendProperties
  <1>6. Changes' = Append(Changes, e)
    BY <1>3, <1>4, <1>5, SeqEqual
  <1>7. ~(Len(Append(Changes, e)) > Capacity)
    BY <1>5, HwTraceAssumption
  <1>8. Log!Newest(Append(Changes, e)) = Append(Changes, e)
    BY <1>7 DEF Log!Newest
  <1>9. Log!Seen(Changes, b, now) = Log!Newest(Append(Changes, e))
    BY <1>2 DEF Log!Seen, e
  <1> QED  BY <1>6, <1>8, <1>9

LEMMA AdvanceIsLogged ==
  ASSUME ReadsBack, ReadsBack', size \in 1 .. Capacity,
         NEW d \in {0, 1}, size' = (size + 1) - d, size < Capacity => d = 0, size' \in 1 .. Capacity,
         NEW b \in Sample, NEW now \in Nat,
         hcs'[At(size - 1)'] = now, Says'[At(size - 1)'] = b,
         \A i \in 0 .. size' - 2 :
           hcs'[At(i)'] = hcs[At(i + d)] /\ Says'[At(i)'] = Says[At(i + d)],
         Changes[size].value # b
  PROVE  Changes' = Log!Seen(Changes, b, now)
  <1> DEFINE e    == [at |-> now, value |-> b]
             long == Append(Changes, e)
  <1>1. e \in Entry
    BY DEF Entry
  <1>2. Changes \in Seq(Entry) /\ Len(Changes) = size /\ Changes # <<>>
    BY HwTraceAssumption DEF ReadsBack
  <1>3. Changes' \in Seq(Entry) /\ Len(Changes') = size'
    BY DEF ReadsBack
  <1>4. Changes'[size'] = e
    <2>1. Changes'[size'] = [at |-> hcs'[At(size - 1)'], value |-> Says'[At(size - 1)']]
      BY HwTraceAssumption DEF ReadsBack, At, Wrap
    <2> QED  BY <2>1
  <1>5. ASSUME NEW j \in 1 .. size' - 1
        PROVE  Changes'[j] = Changes[j + d] /\ j + d \in 1 .. size
    <2>1. j - 1 \in 0 .. size' - 2 /\ j + d \in 1 .. size /\ (j - 1) + d = (j + d) - 1
      BY HwTraceAssumption
    <2>2. Changes'[j] = [at |-> hcs'[At(j - 1)'], value |-> Says'[At(j - 1)']]
      BY HwTraceAssumption DEF ReadsBack
    <2>3. hcs'[At(j - 1)'] = hcs[At((j + d) - 1)] /\ Says'[At(j - 1)'] = Says[At((j + d) - 1)]
      BY <2>1
    <2>4. Changes[j + d] = [at |-> hcs[At((j + d) - 1)], value |-> Says[At((j + d) - 1)]]
      BY <2>1 DEF ReadsBack
    <2> QED  BY <2>1, <2>2, <2>3, <2>4
  <1>6. Log!Seen(Changes, b, now) = Log!Newest(long)
    BY <1>2 DEF Log!Seen, Log!LastOf
  <1> HIDE DEF e
  <1>7. /\ long \in Seq(Entry)
        /\ Len(long) = size + 1
        /\ long[size + 1] = e
        /\ \A j \in 1 .. size : long[j] = Changes[j]
    BY <1>1, <1>2, AppendProperties
  <1> HIDE DEF long
  <1>8. CASE d = 0
    <2>1. ASSUME NEW j \in 1 .. size' PROVE Changes'[j] = long[j]
      BY <1>4, <1>5, <1>7, <1>8, HwTraceAssumption
    <2>2. Changes' = long
      BY <1>3, <1>7, <1>8, <2>1, SeqEqual
    <2>3. Log!Newest(long) = long
      BY <1>7, <1>8, HwTraceAssumption DEF Log!Newest
    <2> QED  BY <1>6, <2>2, <2>3
  <1>9. CASE d = 1
    <2>1. size = Capacity /\ size' = size /\ Len(long) > Capacity
      BY <1>7, <1>9, HwTraceAssumption
    <2>2. long # <<>>
      BY <1>7, HwTraceAssumption
    <2>3. /\ Tail(long) \in Seq(Entry)
          /\ Len(Tail(long)) = size
          /\ \A j \in 1 .. size : Tail(long)[j] = long[j + 1]
      BY <1>7, <2>2, HeadTailProperties, HwTraceAssumption
    <2>4. ASSUME NEW j \in 1 .. size' PROVE Changes'[j] = Tail(long)[j]
      BY <1>4, <1>5, <1>7, <1>9, <2>1, <2>3, HwTraceAssumption
    <2>5. Changes' = Tail(long)
      BY <1>3, <2>1, <2>3, <2>4, SeqEqual
    <2>6. Log!Newest(long) = Tail(long)
      BY <2>1 DEF Log!Newest
    <2> QED  BY <1>6, <2>5, <2>6
  <1> QED  BY <1>8, <1>9

LEMMA EdgeIsTick ==
  ASSUME IInv, IInv', NEW b \in Samples, Edge(b)
  PROVE  Log!Tick
  <1>1. TypeOK /\ TypeOK' /\ RecordsAscend /\ Captured
    BY DEF IInv
  <1>2. b \in Sample /\ hc + 1 \in Nat
    BY <1>1, HwTraceAssumption DEF TypeOK
  <1>3. hc' = hc + 1 /\ bus' = b /\ enabled' = enabled /\ Record(b, hc + 1)
    BY DEF Edge
  <1>4. ReadsBack /\ ReadsBack'
    BY <1>1, ChangesReadBack, ChangesReadBackPrime
  <1>5. CASE ~enabled
    <2>1. Changes' = Changes
      BY <1>3, <1>5 DEF Record, ringVars, Changes, At, Wrap, ReadSnapshot
    <2> QED  BY <1>3, <1>5, <2>1 DEF Log!Tick
  <1>6. CASE enabled /\ head = -1
    <2>1. head' = 0 /\ size' = 1 /\ tail' = tail /\ Store(0, b, hc + 1)
      BY <1>3, <1>6 DEF Record
    <2>2. size = 0 /\ tail' = 0 /\ 0 \in Slot
      BY <1>1, <1>6, <2>1, HwTraceAssumption DEF RecordsAscend, Captured, Slot
    <2>3. At(0)' = 0
      BY <2>2, HwTraceAssumption DEF At, Wrap
    <2>4. Says'[0] = b /\ hcs'[0] = hc + 1
      <3>1. Says' = [Says EXCEPT ![0] = b] /\ hcs' = [hcs EXCEPT ![0] = hc + 1]
        BY <1>1, <1>2, <2>1, <2>2, StoreSays
      <3> QED  BY <1>1, <2>2, <3>1 DEF Says, TypeOK
    <2>5. Changes' = Log!Seen(Changes, b, hc + 1)
      BY <1>2, <1>4, <2>1, <2>2, <2>3, <2>4, FirstIsLogged
    <2> QED  BY <1>3, <1>6, <2>5 DEF Log!Tick
  <1>7. CASE enabled /\ head # -1
    <2>1. size \in 1 .. Capacity /\ head = At(size - 1) /\ head \in Slot
      BY <1>1, <1>7, HwTraceAssumption DEF RecordsAscend, TypeOK
    <2>2. Changes[size].value = ReadSnapshot(head)
      BY <2>1, HwTraceAssumption DEF Changes
    <2>3. Changes # <<>> /\ Len(Changes) = size
      BY <1>4, <2>1, HwTraceAssumption DEF ReadsBack
    <2>4. CASE UnchangedFromHead(b) /\ UNCHANGED ringVars
      <3>1. Changes[size].value = b
        BY <1>1, <1>2, <2>1, <2>2, <2>4, UnchangedIsEqual
      <3>2. Log!Seen(Changes, b, hc + 1) = Changes
        BY <2>3, <3>1 DEF Log!Seen, Log!LastOf
      <3>3. Changes' = Changes
        BY <2>4 DEF ringVars, Changes, At, Wrap, ReadSnapshot
      <3> QED  BY <1>3, <1>7, <3>2, <3>3 DEF Log!Tick
    <2>5. CASE ~UnchangedFromHead(b) /\ Advance /\ Store(Wrap(head + 1), b, hc + 1)
      <3>1. Changes[size].value # b
        BY <1>1, <1>2, <2>1, <2>2, <2>5, UnchangedIsEqual
      <3>2. PICK d \in {0, 1} : Shifted(d)
        BY <1>1, <1>7, <2>5, AdvanceShifts
      <3>3. Store(head', b, hc + 1)
        BY <2>5 DEF Advance
      <3>4. /\ hcs'[head'] = hc + 1 /\ Says'[head'] = b
            /\ \A i \in 0 .. size' - 2 :
                 hcs'[At(i)'] = hcs[At(i + d)] /\ Says'[At(i)'] = Says[At(i + d)]
        BY <1>1, <1>2, <2>1, <3>2, <3>3, StoredAndShifted
      <3>5. /\ size' = (size + 1) - d /\ (size < Capacity => d = 0)
            /\ size' \in 1 .. Capacity /\ head' = At(size - 1)'
        BY <3>2 DEF Shifted
      <3>6. Changes' = Log!Seen(Changes, b, hc + 1)
        BY <1>2, <1>4, <2>1, <3>1, <3>4, <3>5, AdvanceIsLogged
      <3> QED  BY <1>3, <1>7, <3>6 DEF Log!Tick
    <2> QED  BY <1>3, <1>7, <2>4, <2>5 DEF Record
  <1> QED  BY <1>5, <1>6, <1>7

LEMMA EmptyRingIsEmptyLog ==
  ASSUME Clear
  PROVE  Changes' = <<>>
  <1>1. size' = 0
    BY DEF Clear
  <1> QED  BY <1>1 DEF Changes

LEMMA StepIsLogged == IInv /\ IInv' /\ [Next]_vars => [Log!LogNext]_(Log!logVars)
  <1> SUFFICES ASSUME IInv, IInv', [Next]_vars PROVE [Log!LogNext]_(Log!logVars)
    OBVIOUS
  <1>1. ASSUME UNCHANGED <<hc, bus, enabled, ringVars>> PROVE UNCHANGED Log!logVars
    BY <1>1 DEF Log!logVars, ringVars, Changes, At, Wrap, ReadSnapshot
  <1>2. ASSUME NEW b \in Samples, Edge(b) PROVE Log!LogNext
    BY <1>2, EdgeIsTick DEF Log!LogNext
  <1>3. ASSUME NEW stop \in BOOLEAN, FrameEnd(stop) PROVE UNCHANGED Log!logVars
    BY <1>1, <1>3 DEF FrameEnd
  <1>4. CASE Resume
    BY <1>1, <1>4 DEF Resume
  <1>5. ASSUME NEW v \in BOOLEAN, SetCapture(v) PROVE Log!LogNext
    <2>1. enabled' = v /\ hc' = hc /\ bus' = bus
      BY <1>5 DEF SetCapture
    <2>2. CASE v
      <3>1. Changes' = Changes
        BY <1>5, <2>2 DEF SetCapture, ringVars, Changes, At, Wrap, ReadSnapshot
      <3> QED  BY <2>1, <2>2, <3>1 DEF Log!LogNext, Log!Switch
    <2>3. CASE ~v
      <3>1. Changes' = <<>>
        BY <1>5, <2>3, EmptyRingIsEmptyLog DEF SetCapture
      <3> QED  BY <2>1, <2>3, <3>1 DEF Log!LogNext, Log!Switch
    <2> QED  BY <2>2, <2>3
  <1>6. CASE Detach
    BY <1>1, <1>6 DEF Detach
  <1>7. CASE SnapToLive
    BY <1>1, <1>7 DEF SnapToLive
  <1>8. CASE ZeroHC
    <2>1. Changes' = <<>>
      BY <1>8, EmptyRingIsEmptyLog DEF ZeroHC
    <2> QED  BY <1>8, <2>1 DEF ZeroHC, Log!LogNext, Log!Zero
  <1>9. CASE UNCHANGED vars
    BY <1>1, <1>9 DEF vars
  <1> QED  BY <1>2, <1>3, <1>4, <1>5, <1>6, <1>7, <1>8, <1>9 DEF Next

LEMMA InitIsLogged == Init => Log!LogInit
  BY DEF Init, Log!LogInit, Changes

(* Whatever the capacity, the ring is a log of the last Capacity changes   *)
(* of the bus: an edge stores a snapshot exactly when the bus differs from *)
(* the newest one, and only a full ring gives one up, its oldest.          *)
THEOREM RingImplementsLog == Spec => ImplementsChangeLog
  <1>1. Log!LogInit /\ [][Log!LogNext]_(Log!logVars) => ImplementsChangeLog
    BY PTL DEF ImplementsChangeLog, Log!LogSpec
  <1> QED  BY <1>1, InitIsLogged, StepIsLogged, Invariant, PTL DEF Spec

-----------------------------------------------------------------------------
LEMMA EdgeKeepsCells ==
  ASSUME IInv, NEW b \in Samples, Edge(b), size > 0
  PROVE  size' > 0
  <1>1. TypeOK /\ RecordsAscend /\ Record(b, hc + 1)
    BY DEF IInv, Edge
  <1>2. ASSUME head # -1, Advance PROVE size' > 0
    <2>1. size' \in 1 .. Capacity
      BY <1>1, <1>2, AdvanceShifts DEF Shifted
    <2> QED  BY <2>1, HwTraceAssumption
  <1> QED  BY <1>1, <1>2 DEF Record, ringVars

(* Every verb that empties the ring brings the section's cursor back to    *)
(* the live edge, and nothing else empties it.                             *)
THEOREM DetachedAmongCells == Spec => []DetachedHasCells
  <1>1. Init => DetachedHasCells
    BY DEF Init, DetachedHasCells
  <1>2. IInv /\ DetachedHasCells /\ [Next]_vars => DetachedHasCells'
    <2> SUFFICES ASSUME IInv, DetachedHasCells, [Next]_vars, detached' PROVE size' > 0
      BY DEF DetachedHasCells
    <2>1. ASSUME NEW b \in Samples, Edge(b) PROVE size' > 0
      BY <2>1, EdgeKeepsCells DEF Edge, DetachedHasCells
    <2>2. ASSUME NEW stop \in BOOLEAN, FrameEnd(stop) PROVE size' > 0
      BY <2>2 DEF FrameEnd, ringVars, DetachedHasCells
    <2>3. ASSUME NEW v \in BOOLEAN, SetCapture(v) PROVE size' > 0
      BY <2>3 DEF SetCapture, ringVars, DetachedHasCells
    <2>4. CASE Detach
      BY <2>4 DEF Detach, ringVars
    <2>5. CASE Resume
      BY <2>5 DEF Resume, ringVars, DetachedHasCells
    <2>6. CASE SnapToLive \/ ZeroHC
      BY <2>6 DEF SnapToLive, ZeroHC
    <2>7. CASE UNCHANGED vars
      BY <2>7 DEF vars, ringVars, DetachedHasCells
    <2> QED  BY <2>1, <2>2, <2>3, <2>4, <2>5, <2>6, <2>7 DEF Next
  <1> QED  BY <1>1, <1>2, Invariant, PTL DEF Spec

-----------------------------------------------------------------------------
(* latestBefore's binary search. *)

Done(w) == w.lo >= w.hi
Mid(w)  == (w.lo + w.hi) \div 2

(* One turn of the loop halves what is left. *)
Halve(h) ==
  [w \in Windows |-> IF hcs[At(Mid(w))] < h THEN [w EXCEPT !.lo = Mid(w) + 1]
                                            ELSE [w EXCEPT !.hi = Mid(w)]]

Left == [w \in Windows |-> IF Done(w) THEN 0 ELSE w.hi - w.lo]

LEMMA HalveType ==
  ASSUME TypeOK, NEW h \in Nat, NEW w \in Windows, ~Done(w)
  PROVE  /\ Mid(w) \in w.lo .. w.hi - 1
         /\ Halve(h)[w] \in Windows
         /\ Halve(h)[w] = IF hcs[At(Mid(w))] < h THEN [lo |-> Mid(w) + 1, hi |-> w.hi]
                                                 ELSE [lo |-> w.lo, hi |-> Mid(w)]
         /\ Left[Halve(h)[w]] < Left[w]
  <1>1. w.lo \in 0 .. Capacity /\ w.hi \in 0 .. Capacity /\ w.lo < w.hi
    BY HwTraceAssumption DEF Windows, Done
  <1>2. Mid(w) \in w.lo .. w.hi - 1
    BY <1>1, HwTraceAssumption DEF Mid
  <1>3. Halve(h)[w] = IF hcs[At(Mid(w))] < h THEN [lo |-> Mid(w) + 1, hi |-> w.hi]
                                             ELSE [lo |-> w.lo, hi |-> Mid(w)]
    BY DEF Halve, Windows
  <1> DEFINE v == Halve(h)[w]
  <1>4. v.lo \in 0 .. Capacity /\ v.hi \in 0 .. Capacity /\ v \in Windows
    BY <1>1, <1>2, <1>3, HwTraceAssumption DEF Windows
  <1>5. v.hi - v.lo < w.hi - w.lo
    BY <1>1, <1>2, <1>3, HwTraceAssumption
  <1> HIDE DEF v
  <1>6. Left[v] < Left[w]
    BY <1>1, <1>4, <1>5, HwTraceAssumption DEF Left, Done
  <1> QED  BY <1>2, <1>3, <1>4, <1>6 DEF v

LEMMA RecordsStrictlyAscend ==
  ASSUME TypeOK, RecordsAscend
  PROVE  \A i, j \in 0 .. size - 1 : i < j => hcs[At(i)] < hcs[At(j)]
  <1> DEFINE key == [i \in 0 .. size - 1 |-> hcs[At(i)]]
  <1>1. size \in 0 .. Capacity /\ size \in Nat
    BY HwTraceAssumption DEF TypeOK
  <1>2. \A i \in 0 .. size - 1 : hcs[At(i)] \in Int
    BY <1>1, AtInRing, HwTraceAssumption DEF TypeOK
  <1>3. key \in [0 .. size - 1 -> Int]
    BY <1>2
  <1>4. \A i \in 0 .. size - 2 : key[i] < key[i + 1]
    BY <1>1 DEF RecordsAscend
  <1>5. \A i \in 0 .. size - 1 : key[i] = hcs[At(i)]
    OBVIOUS
  <1> HIDE DEF key
  <1>6. \A i, j \in 0 .. size - 1 : i < j => key[i] < key[j]
    BY <1>1, <1>3, <1>4, Ascends
  <1> QED  BY <1>5, <1>6

(* The search ends, and its result is where the snapshots from h on begin. *)
LEMMA SearchFinds ==
  ASSUME TypeOK, RecordsAscend, NEW h \in Nat
  PROVE  /\ FirstFrom(h) \in 0 .. size
         /\ \A i \in 0 .. size - 1 : hcs[At(i)] < h <=> i < FirstFrom(h)
  <1> DEFINE Stop   == {w \in Windows : Done(w)}
             Lo     == [w \in Windows |-> w.lo]
             search == CHOOSE s : s = [w \in Windows |->
                         IF w.lo >= w.hi THEN w.lo
                         ELSE LET mid == (w.lo + w.hi) \div 2
                              IN  s[IF hcs[At(mid)] < h THEN [w EXCEPT !.lo = mid + 1]
                                                        ELSE [w EXCEPT !.hi = mid]]]
             Turn(s) == [w \in Windows |-> IF w \in Stop THEN Lo[w] ELSE s[Halve(h)[w]]]
  <1>1. size \in 0 .. Capacity /\ Capacity \in Nat
    BY HwTraceAssumption DEF TypeOK
  <1>2. Left \in [Windows -> 0 .. Capacity]
    BY <1>1 DEF Left, Windows, Done
  <1>3. Descends(Windows, Stop, Halve(h), Capacity, Left)
    BY <1>1, <1>2, HalveType DEF Descends
  <1>4. PICK f \in [Windows -> 0 .. Capacity] : Runs(f, Windows, Stop, Halve(h), Lo)
    <2>1. \A w \in Windows \cap Stop : Lo[w] \in 0 .. Capacity
      BY DEF Windows
    <2> HIDE DEF Stop, Lo
    <2> QED  BY <1>3, <2>1, LoopEnds
  <1>5. f = Turn(f)
    BY <1>4 DEF Runs
  <1>6. ASSUME NEW s
        PROVE  Turn(s) = [w \in Windows |->
                         IF w.lo >= w.hi THEN w.lo
                         ELSE LET mid == (w.lo + w.hi) \div 2
                              IN  s[IF hcs[At(mid)] < h THEN [w EXCEPT !.lo = mid + 1]
                                                        ELSE [w EXCEPT !.hi = mid]]]
    BY DEF Done, Mid, Halve
  <1>7. search = Turn(search)
    <2>1. f = [w \in Windows |->
                         IF w.lo >= w.hi THEN w.lo
                         ELSE LET mid == (w.lo + w.hi) \div 2
                              IN  f[IF hcs[At(mid)] < h THEN [w EXCEPT !.lo = mid + 1]
                                                        ELSE [w EXCEPT !.hi = mid]]]
      BY <1>5, <1>6
    <2>2. search = [w \in Windows |->
                         IF w.lo >= w.hi THEN w.lo
                         ELSE LET mid == (w.lo + w.hi) \div 2
                              IN  search[IF hcs[At(mid)] < h THEN [w EXCEPT !.lo = mid + 1]
                                                        ELSE [w EXCEPT !.hi = mid]]]
      BY <2>1, Zenon
    <2> HIDE DEF search
    <2> QED  BY <1>6, <2>2
  <1>8. FirstFrom(h) = search[[lo |-> 0, hi |-> size]]
    BY DEF FirstFrom
  <1> HIDE DEF search
  <1>9. Runs(search, Windows, Stop, Halve(h), Lo)
    BY <1>7 DEF Runs
  <1> DEFINE Inv  == {w \in Windows :
                        /\ w.lo <= w.hi /\ w.hi <= size
                        /\ \A i \in 0 .. size - 1 : i < w.lo => hcs[At(i)] < h
                        /\ \A i \in 0 .. size - 1 : i >= w.hi => ~(hcs[At(i)] < h)}
             Good == {r \in 0 .. size : \A i \in 0 .. size - 1 : hcs[At(i)] < h <=> i < r}
  <1>10. \A i, j \in 0 .. size - 1 : i < j => hcs[At(i)] < hcs[At(j)]
    BY RecordsStrictlyAscend
  <1>11. \A i \in 0 .. size - 1 : hcs[At(i)] \in Nat
    BY <1>1, AtInRing DEF TypeOK
  <1>12. ASSUME NEW w \in Inv
         PROVE  IF w \in Stop THEN Lo[w] \in Good ELSE Halve(h)[w] \in Inv
    <2>1. w.lo \in 0 .. Capacity /\ w.hi \in 0 .. Capacity
      BY DEF Windows
    <2>2. CASE w \in Stop
      <3>1. w.lo = w.hi /\ Lo[w] = w.lo
        BY <1>1, <2>1, <2>2 DEF Done
      <3> QED  BY <1>1, <2>1, <2>2, <3>1
    <2>3. CASE w \notin Stop
      <3> DEFINE v == Halve(h)[w]
      <3>1. /\ Mid(w) \in w.lo .. w.hi - 1 /\ v \in Windows
            /\ v = IF hcs[At(Mid(w))] < h THEN [lo |-> Mid(w) + 1, hi |-> w.hi]
                                          ELSE [lo |-> w.lo, hi |-> Mid(w)]
        BY <2>3, HalveType
      <3> HIDE DEF v
      <3>2. Mid(w) \in 0 .. size - 1
        BY <1>1, <2>1, <3>1
      <3>3. CASE hcs[At(Mid(w))] < h
        <4>1. v.lo = Mid(w) + 1 /\ v.hi = w.hi
          BY <3>1, <3>3
        <4>2. ASSUME NEW i \in 0 .. size - 1, i < v.lo PROVE hcs[At(i)] < h
          <5>1. i = Mid(w) \/ i < Mid(w)
            BY <1>1, <3>2, <4>1, <4>2
          <5> QED  BY <1>10, <1>11, <3>2, <3>3, <5>1
        <4>3. v.lo <= v.hi
          BY <1>1, <2>1, <3>1, <4>1
        <4> QED  BY <2>3, <3>1, <4>1, <4>2, <4>3 DEF v
      <3>4. CASE ~(hcs[At(Mid(w))] < h)
        <4>1. v.lo = w.lo /\ v.hi = Mid(w)
          BY <3>1, <3>4
        <4>2. ASSUME NEW i \in 0 .. size - 1, i >= v.hi PROVE ~(hcs[At(i)] < h)
          <5>1. i = Mid(w) \/ Mid(w) < i
            BY <1>1, <3>2, <4>1, <4>2
          <5> QED  BY <1>10, <1>11, <3>2, <3>4, <5>1
        <4>3. v.lo <= v.hi /\ v.hi <= size
          BY <1>1, <2>1, <3>1, <3>2, <4>1
        <4> QED  BY <2>3, <3>1, <4>1, <4>2, <4>3 DEF v
      <3> QED  BY <3>3, <3>4
    <2> QED  BY <2>2, <2>3
  <1>13. [lo |-> 0, hi |-> size] \in Inv
    <2>1. [lo |-> 0, hi |-> size] \in Windows
      BY <1>1 DEF Windows
    <2> QED  BY <1>1, <2>1
  <1>14. \A w \in Inv : search[w] \in Good
    <2>1. Inv \subseteq Windows
      OBVIOUS
    <2>2. Keeps(Inv, Stop, Halve(h), Lo, Good)
      BY <1>12 DEF Keeps
    <2> HIDE DEF Inv, Good, Stop, Lo
    <2> QED  BY <1>3, <1>9, <2>1, <2>2, LoopKeeps
  <1>15. FirstFrom(h) \in Good
    <2> HIDE DEF Inv, Good
    <2> QED  BY <1>8, <1>13, <1>14
  <1> QED  BY <1>15

(* The snapshot in force at a half cycle the ring covers: the last one not *)
(* after it.                                                               *)
Latest(h) == FirstFrom(h + 1) - 1

LEMMA LatestInForce ==
  ASSUME IInv, size > 0, NEW h \in hcs[tail] .. hc
  PROVE  /\ Latest(h) \in 0 .. size - 1
         /\ LatestBefore(h + 1) = {At(Latest(h))}
         /\ \A i \in 0 .. size - 1 : hcs[At(i)] <= h <=> i <= Latest(h)
         /\ ReadSnapshot(At(Latest(h))) = wave[h]
  <1>1. TypeOK /\ RecordsAscend /\ SnapshotsHold
    BY DEF IInv
  <1>2. /\ size \in 1 .. Capacity /\ Capacity \in Nat /\ hc \in Nat /\ tail \in Slot
        /\ hcs[tail] \in Nat
    BY <1>1, HwTraceAssumption DEF TypeOK
  <1>3. At(0) = tail
    BY <1>2, HwTraceAssumption DEF At, Wrap, Slot
  <1>4. h \in Nat /\ h + 1 \in Nat
    BY <1>2
  <1>5. /\ FirstFrom(h + 1) \in 0 .. size
        /\ \A i \in 0 .. size - 1 : hcs[At(i)] < h + 1 <=> i < FirstFrom(h + 1)
    BY <1>1, <1>4, SearchFinds
  <1>6. \A i \in 0 .. size - 1 : hcs[At(i)] \in Nat
    BY <1>1, <1>2, AtInRing DEF TypeOK
  <1>7. FirstFrom(h + 1) # 0
    <2>1. 0 \in 0 .. size - 1 /\ hcs[At(0)] < h + 1
      BY <1>2, <1>3, <1>4
    <2> QED  BY <1>5, <2>1
  <1>8. Latest(h) \in 0 .. size - 1 /\ Latest(h) + 1 = FirstFrom(h + 1)
    BY <1>2, <1>5, <1>7 DEF Latest
  <1>9. \A i \in 0 .. size - 1 : hcs[At(i)] <= h <=> i <= Latest(h)
    <2> TAKE i \in 0 .. size - 1
    <2>1. hcs[At(i)] <= h <=> hcs[At(i)] < h + 1
      BY <1>4, <1>6
    <2>2. i <= Latest(h) <=> i < FirstFrom(h + 1)
      BY <1>2, <1>8
    <2> QED  BY <1>5, <2>1, <2>2
  <1>10. LatestBefore(h + 1) = {At(Latest(h))}
    BY <1>8 DEF LatestBefore, Latest
  <1>11. h \in hcs[At(Latest(h))] .. Until(Latest(h))
    <2>1. hcs[At(Latest(h))] <= h /\ hcs[At(Latest(h))] \in Nat
      BY <1>2, <1>6, <1>8, <1>9
    <2>2. CASE Latest(h) = size - 1
      BY <1>2, <1>4, <2>1, <2>2 DEF Until
    <2>3. CASE Latest(h) # size - 1
      <3>1. Latest(h) + 1 \in 0 .. size - 1 /\ ~(Latest(h) + 1 <= Latest(h))
        BY <1>2, <1>8, <2>3
      <3>2. ~(hcs[At(Latest(h) + 1)] <= h) /\ hcs[At(Latest(h) + 1)] \in Nat
        BY <1>6, <1>9, <3>1
      <3> QED  BY <1>4, <2>1, <2>3, <3>2 DEF Until
    <2> QED  BY <2>2, <2>3
  <1>12. ReadSnapshot(At(Latest(h))) = wave[h]
    BY <1>1, <1>8, <1>11 DEF SnapshotsHold
  <1> QED  BY <1>8, <1>9, <1>10, <1>12

(* latestBefore answers, by halving, with the bus at every half cycle from *)
(* the oldest snapshot on, at every capacity and wherever the ring wraps.  *)
THEOREM RingIsReadBack == Spec => []RingTellsTheBus
  <1>1. IInv => RingTellsTheBus
    <2> SUFFICES ASSUME IInv, size > 0, NEW h \in hcs[tail] .. hc
                 PROVE  \E s \in LatestBefore(h + 1) : ReadSnapshot(s) = wave[h]
      BY DEF RingTellsTheBus
    <2> QED  BY LatestInForce
  <1> QED  BY <1>1, Invariant, PTL

-----------------------------------------------------------------------------
(* The waveform of the paused section. *)

(* Signals that do not change from place a to place b are the same there. *)
LEMMA SameUntil ==
  ASSUME NEW a \in Nat, NEW b \in Nat, NEW level,
         \A i \in a + 1 .. b : level[i] = level[i - 1]
  PROVE  \A i \in a .. b : level[i] = level[a]
  <1> DEFINE Bad == {i \in a .. b : level[i] # level[a]}
  <1>1. Bad = {}
    <2> SUFFICES ASSUME Bad # {} PROVE FALSE
      OBVIOUS
    <2>1. Bad \subseteq Nat
      OBVIOUS
    <2>2. PICK i \in Bad : \A m \in Bad : i <= m
      <3> HIDE DEF Bad
      <3> QED  BY <2>1, Least
    <2>3. i # a /\ i - 1 \in a .. b /\ i \in a + 1 .. b
      OBVIOUS
    <2>4. i - 1 \notin Bad
      BY <2>2, <2>3
    <2> QED  BY <2>3, <2>4
  <1> QED  BY <1>1

(* The first snapshot of the window is always one of a row's transitions,  *)
(* so that a cell with none before it has no snapshot in the window.       *)
LEMMA FirstIsTransition ==
  ASSUME IInv, NEW signal, NEW j \in RangeView(LeftEdge, hc)
  PROVE  \E i \in Transitions(signal) : i <= j
  <1> DEFINE Span == RangeView(LeftEdge, hc)
  <1>1. Span \subseteq 0 .. size - 1 /\ size \in Nat
    BY HwTraceAssumption DEF RangeView, IInv, TypeOK
  <1>2. PICK i \in Span : \A m \in Span : i <= m
    <2>1. Span \subseteq Nat /\ Span # {}
      BY <1>1
    <2> HIDE DEF Span
    <2> QED  BY <2>1, Least
  <1>3. i - 1 \notin Span
    BY <1>1, <1>2
  <1>4. i \in Transitions(signal)
    BY <1>3 DEF Transitions
  <1> QED  BY <1>2, <1>4

LEMMA LevelIsBus ==
  ASSUME IInv, size > 0, NEW signal, NEW h \in LeftEdge .. hc
  PROVE  Level(signal, h) = wave[h][signal]
  <1> DEFINE p      == Latest(h)
             Span == RangeView(LeftEdge, hc)
             before == {i \in Transitions(signal) : hcs[At(i)] <= h}
             seed   == LatestBefore(LeftEdge)
             level  == [i \in 0 .. size - 1 |-> ReadSnapshot(At(i))[signal]]
  <1>1. TypeOK /\ RecordsAscend
    BY DEF IInv
  <1>2. /\ size \in 1 .. Capacity /\ Capacity \in Nat /\ hc \in Nat
        /\ hcs[tail] \in Nat /\ MaxCells \in Nat
    BY <1>1, HwTraceAssumption DEF TypeOK
  <1>3. LeftEdge \in Nat /\ LeftEdge >= hcs[tail] /\ LeftEdge >= 1
    BY <1>2 DEF LeftEdge, Larger
  <1>4. h \in Nat /\ h \in hcs[tail] .. hc
    BY <1>2, <1>3
  <1>5. /\ p \in 0 .. size - 1
        /\ \A i \in 0 .. size - 1 : hcs[At(i)] <= h <=> i <= p
        /\ ReadSnapshot(At(p)) = wave[h]
    BY <1>4, LatestInForce
  <1>6. \A i \in 0 .. size - 1 : hcs[At(i)] \in Nat
    BY <1>1, <1>2, AtInRing DEF TypeOK
  <1> HIDE DEF p
  <1>7. \A i \in Span : i \in 0 .. size - 1 /\ hcs[At(i)] >= LeftEdge
    BY <1>2, <1>3, <1>6 DEF RangeView
  <1>8. \A i \in 0 .. size - 1 : hcs[At(i)] >= LeftEdge /\ hcs[At(i)] <= h => i \in Span
    BY <1>2, <1>3, <1>4, <1>6 DEF RangeView
  <1>9. \A i \in Transitions(signal) : i \in Span
    BY DEF Transitions
  <1>10. CASE before # {}
    <2>1. before \subseteq 0 .. p
      BY <1>2, <1>5, <1>7, <1>9
    <2>2. \E m \in before : \A j \in before : j <= m
      <3>1. p \in Nat
        BY <1>2, <1>5
      <3> HIDE DEF before
      <3> QED  BY <1>10, <2>1, <3>1, Greatest
    <2> DEFINE m == CHOOSE i \in before : \A j \in before : j <= i
    <2>3. m \in before /\ \A j \in before : j <= m
      <3> HIDE DEF before
      <3> QED  BY <2>2
    <2>4. Level(signal, h) = ReadSnapshot(At(m))[signal]
      BY <1>10 DEF Level
    <2> HIDE DEF m
    <2>5. m \in 0 .. p /\ m \in Span /\ hcs[At(m)] >= LeftEdge
      BY <1>7, <1>9, <2>1, <2>3
    <2>6. \A i \in m + 1 .. p : level[i] = level[i - 1]
      <3> SUFFICES ASSUME NEW i \in m + 1 .. p
                   PROVE  ReadSnapshot(At(i))[signal] = ReadSnapshot(At(i - 1))[signal]
        BY <1>2, <1>5, <2>5
      <3>1. i \in 0 .. size - 1 /\ i - 1 \in 0 .. size - 1 /\ i <= p /\ i - 1 <= p
            /\ m < i /\ m <= i - 1 /\ m \in 0 .. size - 1
        BY <1>2, <1>5, <2>5
      <3>2. hcs[At(i)] <= h /\ hcs[At(i - 1)] <= h
        BY <1>5, <3>1
      <3>3. \A a, b \in 0 .. size - 1 : a < b => hcs[At(a)] < hcs[At(b)]
        BY <1>1, RecordsStrictlyAscend
      <3>4. hcs[At(i)] >= LeftEdge /\ hcs[At(i - 1)] >= LeftEdge
        <4>1. hcs[At(m)] < hcs[At(i)]
          BY <3>1, <3>3
        <4>2. i - 1 = m \/ hcs[At(m)] < hcs[At(i - 1)]
          BY <3>1, <3>3
        <4> QED  BY <1>3, <1>6, <2>5, <3>1, <4>1, <4>2
      <3>5. i \in Span /\ i - 1 \in Span
        BY <1>8, <3>1, <3>2, <3>4
      <3>6. i \notin Transitions(signal)
        <4>1. ~(i <= m)
          BY <3>1
        <4> QED  BY <2>3, <3>2, <4>1
      <3> QED  BY <3>5, <3>6 DEF Transitions
    <2>7. level[p] = level[m]
      <3>1. m \in Nat /\ p \in Nat /\ p \in m .. p
        BY <1>2, <1>5, <2>5
      <3> HIDE DEF level
      <3> QED  BY <2>6, <3>1, SameUntil
    <2>8. level[p] = ReadSnapshot(At(p))[signal] /\ level[m] = ReadSnapshot(At(m))[signal]
      BY <1>2, <1>5, <2>5
    <2> QED  BY <1>5, <2>4, <2>7, <2>8
  <1>11. CASE before = {}
    <2>1. p \notin Span
      <3> SUFFICES ASSUME p \in Span PROVE FALSE
        OBVIOUS
      <3>1. PICK i \in Transitions(signal) : i <= p
        BY FirstIsTransition
      <3>2. i \in 0 .. size - 1
        BY <1>7, <1>9
      <3>3. hcs[At(i)] <= h
        BY <1>5, <3>1, <3>2
      <3> QED  BY <1>11, <3>3
    <2>2. hcs[At(p)] <= h /\ hcs[At(p)] \in Nat
      BY <1>2, <1>5, <1>6
    <2>3. hcs[At(p)] < LeftEdge
      BY <1>3, <1>5, <1>8, <2>1, <2>2
    <2>4. /\ FirstFrom(LeftEdge) \in 0 .. size
          /\ \A i \in 0 .. size - 1 : hcs[At(i)] < LeftEdge <=> i < FirstFrom(LeftEdge)
      BY <1>1, <1>3, SearchFinds
    <2>5. FirstFrom(LeftEdge) - 1 = p
      <3>1. p < FirstFrom(LeftEdge)
        BY <1>5, <2>3, <2>4
      <3>2. ASSUME p + 1 < FirstFrom(LeftEdge) PROVE FALSE
        <4>1. p + 1 \in 0 .. size - 1 /\ ~(p + 1 <= p)
          BY <1>2, <1>5, <2>4, <3>2
        <4>2. hcs[At(p + 1)] < LeftEdge /\ ~(hcs[At(p + 1)] <= h) /\ hcs[At(p + 1)] \in Nat
          BY <1>5, <1>6, <2>4, <3>2, <4>1
        <4> QED  BY <1>3, <1>4, <4>2
      <3> QED  BY <1>2, <1>5, <2>4, <3>1, <3>2
    <2>6. seed = {At(p)}
      BY <1>5, <2>5 DEF LatestBefore
    <2>7. (CHOOSE s \in seed : TRUE) = At(p)
      BY <2>6
    <2>8. Level(signal, h) = ReadSnapshot(CHOOSE s \in seed : TRUE)[signal]
      BY <1>11, <2>6 DEF Level
    <2> HIDE DEF seed
    <2> QED  BY <1>5, <2>7, <2>8
  <1> QED  BY <1>10, <1>11

(* In the paused section every row shows in every cell the level the bus   *)
(* had, carried forward from the transition before it or from the snapshot *)
(* before the window; and the section has been told of every change.       *)
THEOREM RowsAreTrue == Spec => []RowsShowTheBus
  <1> DEFINE Told == paused => versionSeen
  <1>1. Init => Told
    BY DEF Init
  <1>2. Told /\ [Next]_vars => Told'
    <2> SUFFICES ASSUME Told, [Next]_vars PROVE Told'
      OBVIOUS
    <2>1. ASSUME NEW b \in Samples, Edge(b) PROVE Told'
      BY <2>1 DEF Edge
    <2>2. ASSUME NEW stop \in BOOLEAN, FrameEnd(stop) PROVE Told'
      BY <2>2 DEF FrameEnd
    <2>3. ASSUME NEW v \in BOOLEAN, SetCapture(v) PROVE Told'
      BY <2>3 DEF SetCapture
    <2>4. CASE Resume \/ Detach \/ SnapToLive \/ ZeroHC \/ UNCHANGED vars
      BY <2>4 DEF Resume, Detach, SnapToLive, ZeroHC, vars
    <2> QED  BY <2>1, <2>2, <2>3, <2>4 DEF Next
  <1>3. IInv /\ Told => RowsShowTheBus
    BY LevelIsBus DEF RowsShowTheBus
  <1> QED  BY <1>1, <1>2, <1>3, Invariant, PTL DEF Spec

-----------------------------------------------------------------------------
(* The grids, their editors and the preview: the invariant. *)

AddrsOf(mode) == IF mode = "8bit" THEN 0 .. Ports - 1 ELSE Addr

Cells == AddrsOf(viewMode)

Planes == {"mem", "rd", "wr"}

(* Where the page is. *)
PageTypes ==
  /\ viewMode \in {"16bit", "8bit"} /\ plane \in Planes /\ (plane = "mem" => viewMode = "16bit")
  /\ status \in {"paused", "running"}
  /\ pageSize \in PageSizes /\ bytesPerRow \in RowSizes
  /\ watchAddr \in Addr /\ scrollTop \in Nat
  /\ viewPageBase \in Addr /\ pageBase(viewPageBase, pageSize) = viewPageBase

BusTypes ==
  /\ planes \in [mem : [Addr -> Byte], rd : [Addr -> Byte], wr : [Addr -> Byte]]
  /\ pc \in Addr

(* What is shown is the page, read some time ago. *)
PageShown ==
  /\ shown.start = IF viewMode = "8bit" THEN 0 ELSE viewPageBase
  /\ DOMAIN shown.buf = IF viewMode = "8bit" THEN 0 .. Ports - 1 ELSE 0 .. pageSize - 1

GridCurrent ==
  status = "paused" => shown = PageData(planes[plane], viewMode, viewPageBase, pageSize)

PreviewCurrent ==
  status = "paused" => preview = previewLines(planes.mem, pc)

EditorFields == {"lane", "row", "col", "text", "opened", "moved"}

(* The address at a row and column of a page. *)
CellAt(mode, start, first, n, row, col) ==
  IF mode = "8bit" THEN row * n + col ELSE (start + (first + row) * n + col) % Size

(* An editor is over a cell of the page, and over the one it was opened at *)
(* unless the rows moved under it.                                         *)
Over(e, mode, start, first, n) ==
  /\ DOMAIN e = EditorFields
  /\ e.row \in Nat /\ e.col \in Nat
  /\ CellAt(mode, start, first, n, e.row, e.col) \in AddrsOf(mode)
  /\ ~e.moved => e.opened = CellAt(mode, start, first, n, e.row, e.col)

InPlace(e) == Over(e, viewMode, shown.start, windowRange.first, bytesPerRow)

InPlaceNext(e) == Over(e, viewMode', shown'.start, windowRange'.first, bytesPerRow')

EditorsInPlace == (Editing => InPlace(edit)) /\ \A e \in left : InPlace(e)

(* Only memory has an ASCII column, and only its editors are left open. *)
AsciiOfMemory ==
  plane # "mem" => "ascii" \notin columns /\ (Editing => edit.lane # "ascii") /\ left = {}

VInv ==
  PageTypes /\ BusTypes /\ PageShown /\ GridCurrent /\ PreviewCurrent /\ EditorsInPlace /\ AsciiOfMemory

-----------------------------------------------------------------------------
(* Arithmetic of pages and rows. *)

LEMMA DivMod ==
  ASSUME NEW a \in Int, NEW n \in Nat \ {0}
  PROVE  /\ a \div n \in Int /\ a % n \in 0 .. n - 1
         /\ a = n * (a \div n) + (a % n)
  OBVIOUS

LEMMA DivNat ==
  ASSUME NEW a \in Nat, NEW n \in Nat \ {0}
  PROVE  a \div n \in Nat /\ a = n * (a \div n) + (a % n)
  OBVIOUS

(* Two multiples of n less than n apart are the same one. *)
LEMMA SameMultiple ==
  ASSUME NEW n \in Nat \ {0}, NEW q \in Int, NEW r \in Int, NEW d \in Int,
         n * q = n * r + d, -n < d, d < n
  PROVE  q = r
  <1>1. CASE q > r
    <2>1. q >= r + 1
      BY <1>1
    <2>2. n * q >= n * (r + 1)
      BY <2>1
    <2>3. n * (r + 1) = n * r + n
      OBVIOUS
    <2> QED  BY <2>2, <2>3
  <1>2. CASE q < r
    <2>1. r >= q + 1
      BY <1>2
    <2>2. n * r >= n * (q + 1)
      BY <2>1
    <2>3. n * (q + 1) = n * q + n
      OBVIOUS
    <2> QED  BY <2>2, <2>3
  <1> QED  BY <1>1, <1>2

LEMMA ModUnique ==
  ASSUME NEW n \in Nat \ {0}, NEW a \in Int, NEW q \in Int, NEW r \in 0 .. n - 1,
         a = n * q + r
  PROVE  a % n = r /\ a \div n = q
  <1>1. a \div n \in Int /\ a % n \in 0 .. n - 1 /\ a = n * (a \div n) + (a % n)
    BY DivMod
  <1> DEFINE p == a \div n
             d == a % n
  <1>2. p \in Int /\ d \in 0 .. n - 1 /\ a = n * p + d
    BY <1>1
  <1> HIDE DEF p, d
  <1>3. n * q \in Int /\ n * p \in Int
    BY <1>2
  <1>4. n * p = n * q + (r - d) /\ -n < r - d /\ r - d < n /\ r - d \in Int
    BY <1>2, <1>3
  <1>5. p = q
    BY <1>2, <1>4, SameMultiple
  <1>6. d = r
    BY <1>2, <1>3, <1>5
  <1> QED  BY <1>5, <1>6 DEF p, d

(* Below n, the remainder is the number itself. *)
LEMMA ModSmall ==
  ASSUME NEW n \in Nat \ {0}, NEW a \in 0 .. n - 1
  PROVE  a % n = a /\ a \div n = 0
  <1>1. a = n * 0 + a
    OBVIOUS
  <1> QED  BY <1>1, ModUnique

LEMMA ModSelf ==
  ASSUME NEW n \in Nat \ {0}
  PROVE  n % n = 0
  <1>1. n = n * 1 + 0 /\ 0 \in 0 .. n - 1
    OBVIOUS
  <1> QED  BY <1>1, ModUnique

(* A remainder taken once is not changed by a turn. *)
LEMMA ModAgain ==
  ASSUME NEW n \in Nat \ {0}, NEW a \in Int, NEW b \in Int
  PROVE  (b + ((a - b) % n)) % n = a % n
  <1> DEFINE c == a - b
             p == c \div n
             d == c % n
             q == a \div n
             e == a % n
  <1>0. c \in Int
    OBVIOUS
  <1>1. p \in Int /\ d \in 0 .. n - 1 /\ c = n * p + d
    <2> HIDE DEF c
    <2> QED  BY <1>0, DivMod
  <1>2. q \in Int /\ e \in 0 .. n - 1 /\ a = n * q + e
    BY DivMod
  <1>3. b + d = n * (q - p) + e
    <2>1. n * (q - p) = n * q - n * p
      <3> HIDE DEF p, q
      <3> QED  BY <1>1, <1>2
    <2>2. n * q \in Int /\ n * p \in Int
      <3> HIDE DEF p, q
      <3> QED  BY <1>1, <1>2
    <2>3. b = a - c
      OBVIOUS
    <2> HIDE DEF p, q, d, e, c
    <2> QED  BY <1>1, <1>2, <2>1, <2>2, <2>3
  <1>4. b + d \in Int /\ q - p \in Int
    <2> HIDE DEF p, q, d
    <2> QED  BY <1>1, <1>2
  <1>5. (b + d) % n = e
    <2> HIDE DEF p, q, d, e, c
    <2> QED  BY <1>2, <1>3, <1>4, ModUnique
  <1> QED  BY <1>5

(* Pages: the base of a page is a multiple of its size; a page that starts *)
(* below the end of a space it divides ends there.                         *)
LEMMA PageBase ==
  ASSUME NEW a \in Nat, NEW ps \in Nat \ {0}
  PROVE  /\ pageBase(a, ps) \in 0 .. a
         /\ a < pageBase(a, ps) + ps
         /\ pageBase(a, ps) % ps = 0
         /\ pageBase(pageBase(a, ps), ps) = pageBase(a, ps)
  <1> DEFINE q == a \div ps
             r == a % ps
  <1>1. q \in Nat /\ r \in 0 .. ps - 1 /\ a = ps * q + r
    <2>1. a \div ps \in Nat /\ a = ps * (a \div ps) + (a % ps)
      BY DivNat
    <2>2. a % ps \in 0 .. ps - 1
      BY DivMod
    <2> QED  BY <2>1, <2>2
  <1>2. pageBase(a, ps) = ps * q
    <2>1. pageBase(a, ps) = a - r
      BY DEF pageBase
    <2>2. ps * q \in Nat
      <3> HIDE DEF q
      <3> QED  BY <1>1
    <2> HIDE DEF q, r
    <2> QED  BY <1>1, <2>1, <2>2
  <1> HIDE DEF q, r
  <1>3. ps * q \in Nat /\ ps * q = ps * q + 0 /\ 0 \in 0 .. ps - 1
    BY <1>1
  <1>4. (ps * q) % ps = 0
    BY <1>1, <1>3, ModUnique
  <1>5. pageBase(ps * q, ps) = ps * q
    BY <1>3, <1>4 DEF pageBase
  <1> QED  BY <1>1, <1>2, <1>3, <1>4, <1>5

LEMMA PageFits ==
  ASSUME NEW a \in Nat, NEW ps \in Nat \ {0}, NEW n \in Nat \ {0},
         a % ps = 0, n % ps = 0, a < n
  PROVE  a + ps <= n
  <1> DEFINE q == a \div ps
             r == n \div ps
  <1>1. q \in Nat /\ a = ps * q
    BY DivNat
  <1>2. r \in Nat /\ n = ps * r
    BY DivNat
  <1> HIDE DEF q, r
  <1>3. r >= q + 1
    <2> SUFFICES ASSUME r <= q PROVE FALSE
      BY <1>1, <1>2
    <2>1. ps * r <= ps * q
      BY <1>1, <1>2
    <2> QED  BY <1>1, <1>2, <2>1
  <1>4. ps * r >= ps * (q + 1)
    BY <1>1, <1>2, <1>3
  <1>5. ps * (q + 1) = ps * q + ps
    BY <1>1
  <1> QED  BY <1>1, <1>2, <1>4, <1>5

(* The multiples next to a multiple. *)
LEMMA Multiple ==
  ASSUME NEW n \in Nat \ {0}, NEW q \in Int
  PROVE  (n * q) % n = 0
  <1>1. n * q \in Int /\ n * q = n * q + 0 /\ 0 \in 0 .. n - 1
    OBVIOUS
  <1> DEFINE a == n * q
  <1> HIDE DEF a
  <1>2. a \in Int /\ a = n * q + 0
    BY <1>1 DEF a
  <1>3. a % n = 0
    BY <1>1, <1>2, ModUnique
  <1> QED  BY <1>3 DEF a

LEMMA NextMultiple ==
  ASSUME NEW a \in Nat, NEW ps \in Nat \ {0}, a % ps = 0
  PROVE  (a + ps) % ps = 0 /\ (a - ps) % ps = 0
  <1> DEFINE q == a \div ps
  <1>1. q \in Nat /\ a = ps * q
    BY DivNat
  <1> HIDE DEF q
  <1>2. ps * (q + 1) = ps * q + ps /\ ps * (q - 1) = ps * q - ps
    BY <1>1
  <1>3. a + ps = ps * (q + 1) /\ a - ps = ps * (q - 1)
    BY <1>1, <1>2
  <1>4. (ps * (q + 1)) % ps = 0 /\ (ps * (q - 1)) % ps = 0
    <2>1. q + 1 \in Int /\ q - 1 \in Int
      BY <1>1
    <2> QED  BY <2>1, Multiple
  <1> QED  BY <1>3, <1>4

(* A cell is in the row of its quotient and the column of its remainder. *)
LEMMA RowAndColumn ==
  ASSUME NEW cell \in Nat, NEW n \in Nat \ {0}
  PROVE  /\ cell \div n \in Nat /\ cell % n \in Nat /\ cell % n <= n - 1
         /\ (cell \div n) * n + (cell % n) = cell
  <1>1. cell \div n \in Nat /\ cell = n * (cell \div n) + (cell % n)
    BY DivNat
  <1>2. cell % n \in 0 .. n - 1
    BY DivMod
  <1> DEFINE q == cell \div n
  <1>3. n * q = q * n
    <2>1. q \in Nat
      BY <1>1
    <2> HIDE DEF q
    <2> QED  BY <2>1
  <1> QED  BY <1>1, <1>2, <1>3

(* Rows of n columns fill a space that n divides. *)
LEMMA CellInSpace ==
  ASSUME NEW total \in Nat, NEW n \in Nat \ {0}, total % n = 0,
         NEW row \in 0 .. total \div n - 1, NEW col \in 0 .. n - 1
  PROVE  row * n + col \in 0 .. total - 1
  <1> DEFINE q == total \div n
  <1>1. q \in Nat /\ total = n * q
    BY DivNat
  <1>2. row \in Nat /\ row + 1 <= q
    <2> HIDE DEF q
    <2>1. row \in 0 .. q - 1
      BY DEF q
    <2> QED  BY <1>1, <2>1
  <1> HIDE DEF q
  <1>3. n * (row + 1) <= n * q
    BY <1>1, <1>2
  <1>4. n * (row + 1) = row * n + n
    BY <1>2
  <1>5. row * n \in Nat
    BY <1>2
  <1> QED  BY <1>1, <1>3, <1>4, <1>5

-----------------------------------------------------------------------------
(* Windows, pages and the cells of a page. *)

LEMMA MaxOfTwo ==
  ASSUME NEW a \in Int, NEW b \in Int
  PROVE  Max({a, b}) \in {a, b} /\ Max({a, b}) >= a /\ Max({a, b}) >= b
  <1>1. \E x \in {a, b} : \A y \in {a, b} : x >= y
    <2>1. CASE a >= b
      BY <2>1
    <2>2. CASE b >= a
      BY <2>2
    <2> QED  BY <2>1, <2>2
  <1>2. Max({a, b}) \in {a, b} /\ \A y \in {a, b} : Max({a, b}) >= y
    BY <1>1, Zenon DEF Max
  <1> QED  BY <1>2

LEMMA MinOfTwo ==
  ASSUME NEW a \in Int, NEW b \in Int
  PROVE  Min({a, b}) \in {a, b} /\ Min({a, b}) <= a /\ Min({a, b}) <= b
  <1>1. \E x \in {a, b} : \A y \in {a, b} : x <= y
    <2>1. CASE a <= b
      BY <2>1
    <2>2. CASE b <= a
      BY <2>2
    <2> QED  BY <2>1, <2>2
  <1>2. Min({a, b}) \in {a, b} /\ \A y \in {a, b} : Min({a, b}) <= y
    BY <1>1, Zenon DEF Min
  <1> QED  BY <1>2

LEMMA VirtualWindow ==
  ASSUME NEW top \in Nat, NEW total \in Nat
  PROVE  /\ computeVirtualWindow(top, total).first \in Nat
         /\ computeVirtualWindow(top, total).last \in Int
  <1>1. Max({0, top - Overscan}) \in Nat
    <2> DEFINE d == top - Overscan
    <2>1. d \in Int
      BY ViewAssumption
    <2> HIDE DEF d
    <2>2. Max({0, d}) \in {0, d} /\ Max({0, d}) >= 0
      BY <2>1, MaxOfTwo
    <2>3. Max({0, d}) \in Nat
      BY <2>1, <2>2
    <2> QED  BY <2>3 DEF d
  <1>2. Min({total, top + ViewportRows + Overscan}) \in Int
    <2> DEFINE d == top + ViewportRows + Overscan
    <2>1. d \in Int
      BY ViewAssumption
    <2> HIDE DEF d
    <2>2. Min({total, d}) \in {total, d}
      BY <2>1, MinOfTwo
    <2>3. Min({total, d}) \in Int
      BY <2>1, <2>2
    <2> QED  BY <2>3 DEF d
  <1> QED  BY <1>1, <1>2 DEF computeVirtualWindow

(* At the top of a page its first row is mounted. *)
LEMMA TopIsMounted ==
  ASSUME NEW total \in Nat \ {0}
  PROVE  /\ computeVirtualWindow(0, total).first = 0
         /\ computeVirtualWindow(0, total).last >= 1
  <1>1. Max({0, 0 - Overscan}) = 0
    <2> DEFINE d == 0 - Overscan
    <2>1. d \in Int /\ 0 >= d
      BY ViewAssumption
    <2> HIDE DEF d
    <2>2. Max({0, d}) \in {0, d} /\ Max({0, d}) >= 0
      BY <2>1, MaxOfTwo
    <2>3. Max({0, d}) = 0
      BY <2>1, <2>2
    <2> QED  BY <2>3 DEF d
  <1>2. Min({total, 0 + ViewportRows + Overscan}) >= 1
    <2> DEFINE d == 0 + ViewportRows + Overscan
    <2>1. d \in Int /\ d >= 1
      BY ViewAssumption
    <2> HIDE DEF d
    <2>2. Min({total, d}) \in {total, d}
      BY <2>1, MinOfTwo
    <2>3. Min({total, d}) >= 1
      BY <2>1, <2>2
    <2> QED  BY <2>3 DEF d
  <1> QED  BY <1>1, <1>2 DEF computeVirtualWindow

LEMMA PageSizeTypes ==
  ASSUME NEW ps \in PageSizes, NEW n \in RowSizes
  PROVE  /\ ps \in Nat \ {0} /\ n \in Nat \ {0}
         /\ ps < Size /\ Size % ps = 0 /\ ps % n = 0 /\ Ports % n = 0
         /\ ps \div n \in Nat \ {0}
  <1>1. /\ ps \in Nat \ {0} /\ n \in Nat \ {0}
        /\ ps < Size /\ Size % ps = 0 /\ ps % n = 0 /\ Ports % n = 0
    BY ViewAssumption
  <1>2. ps \div n \in Nat /\ ps = n * (ps \div n) + (ps % n)
    BY <1>1, DivNat
  <1>3. ps \div n # 0
    <2> SUFFICES ASSUME ps \div n = 0 PROVE FALSE
      OBVIOUS
    <2>1. ps = n * 0 + 0
      BY <1>1, <1>2
    <2> QED  BY <1>1, <2>1
  <1> QED  BY <1>1, <1>2, <1>3

LEMMA MaxTopTypes ==
  ASSUME NEW ps \in PageSizes, NEW n \in RowSizes
  PROVE  MaxTop(ps, n) \in Nat
  <1>1. ps \div n \in Nat
    BY PageSizeTypes
  <1>2. (ps \div n) - ViewportRows \in Int
    BY <1>1, ViewAssumption
  <1> QED  BY <1>2, MaxOfTwo DEF MaxTop

LEMMA PortsFit == Ports \in Nat \ {0} /\ Size \in Nat \ {0} /\ Ports <= Size
  <1>1. Ports \in Nat \ {0} /\ Size \in Nat \ {0} /\ Size % Ports = 0
    BY ViewAssumption
  <1>2. 0 % Ports = 0
    BY <1>1, ModSmall
  <1>3. 0 + Ports <= Size
    BY <1>1, <1>2, PageFits
  <1> QED  BY <1>1, <1>3

IsPage(base, ps) == base \in Addr /\ pageBase(base, ps) = base

LEMMA BaseIsPage ==
  ASSUME NEW a \in Addr, NEW ps \in PageSizes
  PROVE  IsPage(pageBase(a, ps), ps)
  <1>1. a \in Nat /\ a < Size /\ Size \in Nat
    BY PortsFit DEF Addr
  <1>2. ps \in Nat \ {0}
    BY ViewAssumption
  <1>3. pageBase(a, ps) \in 0 .. a /\ pageBase(pageBase(a, ps), ps) = pageBase(a, ps)
    BY <1>1, <1>2, PageBase
  <1> QED  BY <1>1, <1>3 DEF IsPage, Addr

LEMMA AlignedIsPage ==
  ASSUME NEW a \in Addr, NEW ps \in PageSizes, a % ps = 0
  PROVE  IsPage(a, ps)
  BY DEF IsPage, pageBase, Addr

LEMMA PageIsAligned ==
  ASSUME NEW a, NEW ps \in PageSizes, IsPage(a, ps)
  PROVE  a \in Addr /\ a % ps = 0 /\ a + ps <= Size
  <1>1. ps \in Nat \ {0} /\ Size \in Nat \ {0} /\ Size % ps = 0
    BY ViewAssumption
  <1>2. a \in Addr /\ a = a - (a % ps)
    BY DEF IsPage, pageBase
  <1>3. a \in Nat /\ a < Size
    BY <1>1, <1>2 DEF Addr
  <1>4. a % ps \in 0 .. ps - 1
    BY <1>1, <1>3, DivMod
  <1>5. a % ps = 0
    <2> DEFINE r == a % ps
    <2>1. r \in Int /\ a = a - r
      BY <1>1, <1>2, <1>4
    <2> HIDE DEF r
    <2>2. r = 0
      BY <1>3, <2>1
    <2> QED  BY <2>2 DEF r
  <1> QED  BY <1>1, <1>2, <1>3, <1>5, PageFits

(* The pages before and after a page, and the last one. *)
LEMMA PagesBeside ==
  ASSUME NEW a, NEW ps \in PageSizes, IsPage(a, ps)
  PROVE  /\ \A b \in nextPageBase(a, ps) : IsPage(b, ps) /\ b = a + ps
         /\ \A b \in prevPageBase(a, ps) : IsPage(b, ps)
         /\ IsPage(lastPageBase(ps), ps)
         /\ IsPage(0, ps)
         /\ nextPageBase(a, ps) = {} <=> a + ps = Size
  <1>1. ps \in Nat \ {0} /\ Size \in Nat \ {0} /\ Size % ps = 0 /\ ps < Size
    BY ViewAssumption
  <1>2. a \in Addr /\ a % ps = 0 /\ a + ps <= Size
    BY PageIsAligned
  <1>3. a \in Nat /\ pageBase(a, ps) = a
    BY <1>2 DEF Addr, IsPage
  <1>4. (a + ps) % ps = 0 /\ (a - ps) % ps = 0
    BY <1>1, <1>2, <1>3, NextMultiple
  <1>5. (Size - ps) % ps = 0
    BY <1>1, NextMultiple
  <1>6. IsPage(lastPageBase(ps), ps)
    <2>1. Size - ps \in Addr
      BY <1>1 DEF Addr
    <2> QED  BY <1>5, <2>1, AlignedIsPage DEF lastPageBase
  <1>7. IsPage(0, ps)
    <2>1. 0 \in Addr
      BY <1>1 DEF Addr
    <2>2. 0 % ps = 0
      BY <1>1, ModSmall
    <2> QED  BY <2>1, <2>2, AlignedIsPage
  <1>8. ASSUME NEW b \in nextPageBase(a, ps) PROVE IsPage(b, ps) /\ b = a + ps
    <2>1. a # Size - ps /\ b = a + ps
      BY <1>3, <1>8 DEF nextPageBase, lastPageBase
    <2>2. a + ps \in Addr
      BY <1>1, <1>2, <1>3, <2>1 DEF Addr
    <2> QED  BY <1>4, <2>1, <2>2, AlignedIsPage
  <1>9. ASSUME NEW b \in prevPageBase(a, ps) PROVE IsPage(b, ps)
    <2>1. a # 0 /\ b = a - ps
      BY <1>3, <1>9 DEF prevPageBase
    <2>2. a >= ps
      <3>1. CASE a < ps
        <4>1. a \in 0 .. ps - 1
          BY <1>1, <1>3, <3>1
        <4>2. a % ps = a
          BY <1>1, <4>1, ModSmall
        <4> QED  BY <1>2, <2>1, <4>2
      <3> QED  BY <1>1, <1>3, <3>1
    <2>3. a - ps \in Addr
      BY <1>1, <1>2, <1>3, <2>2 DEF Addr
    <2> QED  BY <1>4, <2>1, <2>3, AlignedIsPage
  <1>10. nextPageBase(a, ps) = {} <=> a + ps = Size
    BY <1>1, <1>3 DEF nextPageBase, lastPageBase
  <1> QED  BY <1>6, <1>7, <1>8, <1>9, <1>10

-----------------------------------------------------------------------------
(* Where the page is. *)

LEMMA ShowPageTypes ==
  ASSUME PageTypes, NEW base, ShowPage(base), pageSize' \in PageSizes,
         IsPage(base, pageSize')
  PROVE  /\ viewPageBase' \in Addr /\ pageBase(viewPageBase', pageSize') = viewPageBase'
         /\ scrollTop' \in Nat
  <1>1. viewPageBase' = base /\ (scrollTop' = scrollTop \/ scrollTop' = 0)
    BY DEF ShowPage
  <1>2. scrollTop \in Nat
    BY DEF PageTypes
  <1> QED  BY <1>1, <1>2 DEF IsPage

(* Where the next cell is, and which page it is on. *)
OnLastCell(a) == viewMode = "16bit" /\ a = pageLastAddr(viewPageBase, pageSize)

LEMMA AdvanceTurnsPage ==
  ASSUME PageTypes, NEW a, advance(a), OnLastCell(a)
  PROVE  /\ watchAddr' = (a + 1) % Size /\ viewPageBase' = watchAddr' /\ scrollTop' = 0
         /\ IsPage(viewPageBase', pageSize)
  <1>1. pageSize \in PageSizes /\ IsPage(viewPageBase, pageSize)
    BY DEF PageTypes, IsPage
  <1>2. /\ \A b \in nextPageBase(viewPageBase, pageSize) :
             IsPage(b, pageSize) /\ b = viewPageBase + pageSize
        /\ IsPage(0, pageSize)
        /\ nextPageBase(viewPageBase, pageSize) = {} <=> viewPageBase + pageSize = Size
    BY <1>1, PagesBeside
  <1>3. viewPageBase \in Addr /\ viewPageBase + pageSize <= Size
    BY <1>1, PageIsAligned
  <1>4. pageSize \in Nat \ {0} /\ Size \in Nat \ {0} /\ viewPageBase \in Nat
    BY <1>1, <1>3, ViewAssumption DEF Addr
  <1>5. a + 1 = viewPageBase + pageSize
    <2>1. a = pageBase(viewPageBase, pageSize) + pageSize - 1
      BY DEF OnLastCell, pageLastAddr
    <2>2. pageBase(viewPageBase, pageSize) = viewPageBase
      BY <1>1 DEF IsPage
    <2> QED  BY <1>4, <2>1, <2>2
  <1>6. /\ watchAddr' \in IF nextPageBase(viewPageBase, pageSize) = {} THEN {0}
                          ELSE nextPageBase(viewPageBase, pageSize)
        /\ viewPageBase' = watchAddr' /\ scrollTop' = 0
    BY DEF advance, OnLastCell
  <1>7. CASE nextPageBase(viewPageBase, pageSize) = {}
    <2>1. a + 1 = Size
      BY <1>2, <1>5, <1>7
    <2>2. Size % Size = 0
      BY <1>4, ModSelf
    <2>3. watchAddr' = 0
      BY <1>6, <1>7
    <2> QED  BY <1>2, <1>6, <2>1, <2>2, <2>3
  <1>8. CASE nextPageBase(viewPageBase, pageSize) # {}
    <2>1. watchAddr' \in nextPageBase(viewPageBase, pageSize)
      BY <1>6, <1>8
    <2>2. IsPage(watchAddr', pageSize) /\ watchAddr' = a + 1
      BY <1>2, <1>5, <2>1
    <2>3. a + 1 \in 0 .. Size - 1
      BY <2>2 DEF IsPage, Addr
    <2>4. (a + 1) % Size = a + 1
      BY <1>4, <2>3, ModSmall
    <2> QED  BY <1>6, <2>2, <2>4
  <1> QED  BY <1>7, <1>8

LEMMA AdvanceStays ==
  ASSUME NEW a, advance(a), ~OnLastCell(a)
  PROVE  UNCHANGED <<watchAddr, viewPageBase, scrollTop>>
  BY DEF advance, OnLastCell

LEMMA AdvanceTypes ==
  ASSUME PageTypes, NEW a, advance(a), UNCHANGED pageSize
  PROVE  /\ watchAddr' \in Addr /\ scrollTop' \in Nat
         /\ viewPageBase' \in Addr /\ pageBase(viewPageBase', pageSize') = viewPageBase'
  <1>1. CASE OnLastCell(a)
    BY <1>1, AdvanceTurnsPage DEF IsPage
  <1>2. CASE ~OnLastCell(a)
    BY <1>2, AdvanceStays DEF PageTypes
  <1> QED  BY <1>1, <1>2

LEMMA PageTypesKept ==
  ASSUME PageTypes, [ViewNext]_viewVars
  PROVE  PageTypes'
  <1>0. pageSize \in PageSizes /\ bytesPerRow \in RowSizes /\ watchAddr \in Addr
        /\ IsPage(viewPageBase, pageSize)
    BY DEF PageTypes, IsPage
  <1>1. CASE Click \/ Focus \/ Type \/ Escape \/ Blur \/ Run \/ CpuStep \/ Pause \/ WriteFiles
             \/ SetColumns \/ UNCHANGED viewVars
    BY <1>1, Zenon DEF PageTypes, Click, Focus, Type, Escape, Blur, Run, CpuStep, Pause, WriteFiles,
                SetColumns, viewVars, busVars, fixed, pageVars, Unfocused
  <1>2. CASE Enter
    <2>1. CASE EnterRefuses
      BY <1>2, <2>1, Zenon DEF PageTypes, Enter, EnterRefuses, busVars, fixed, pageVars
    <2>2. CASE EnterCommits
      <3>1. /\ advance(CellAddr(edit.row, edit.col))
            /\ UNCHANGED <<status, viewMode, pageSize, bytesPerRow, plane>>
        BY <1>2, <2>2 DEF Enter, EnterCommits, CommitThenAdvance, fixed
      <3>2. /\ watchAddr' \in Addr /\ scrollTop' \in Nat
            /\ viewPageBase' \in Addr /\ pageBase(viewPageBase', pageSize') = viewPageBase'
        BY <3>1, AdvanceTypes
      <3> QED  BY <3>1, <3>2, Zenon DEF PageTypes
    <2> QED  BY <1>2, <2>1, <2>2 DEF Enter
  <1>3. CASE Scroll
    <2>1. /\ UNCHANGED <<status, viewMode, pageSize, bytesPerRow, plane, watchAddr, viewPageBase>>
          /\ scrollTop' \in 0 .. MaxTop(pageSize, bytesPerRow)
      BY <1>3 DEF Scroll, fixed
    <2>2. scrollTop' \in Nat
      BY <1>0, <2>1, MaxTopTypes
    <2> QED  BY <2>1, <2>2, Zenon DEF PageTypes
  <1>4. CASE PageNav
    <2>1. UNCHANGED <<status, viewMode, pageSize, bytesPerRow, plane, watchAddr>>
      BY <1>4 DEF PageNav, Unfocused, busVars, fixed
    <2>2. PICK base \in {0, lastPageBase(pageSize), pageBase(watchAddr, pageSize)}
                   \cup prevPageBase(viewPageBase, pageSize)
                   \cup nextPageBase(viewPageBase, pageSize) : ShowPage(base)
      BY <1>4 DEF PageNav
    <2>3. IsPage(base, pageSize)
      BY <1>0, <2>2, PagesBeside, BaseIsPage
    <2>4. /\ viewPageBase' \in Addr /\ pageBase(viewPageBase', pageSize') = viewPageBase'
          /\ scrollTop' \in Nat
      BY <1>0, <2>1, <2>2, <2>3, ShowPageTypes
    <2> QED  BY <2>1, <2>4, Zenon DEF PageTypes
  <1>5. CASE SetWatchAddr
    <2>1. UNCHANGED <<status, viewMode, pageSize, bytesPerRow, plane>>
      BY <1>5 DEF SetWatchAddr, Unfocused, busVars, fixed
    <2>2. watchAddr' \in Addr
      <3>1. CASE viewMode = "8bit"
        <4>1. PICK a \in Watches : watchAddr' = a % Ports
          BY <1>5, <3>1 DEF SetWatchAddr
        <4>2. a \in Int
          BY ViewAssumption DEF Addr
        <4>3. a % Ports \in 0 .. Ports - 1
          BY <4>2, PortsFit, DivMod
        <4> QED  BY <4>1, <4>3, PortsFit DEF Addr
      <3>2. CASE viewMode # "8bit"
        BY <1>5, <3>2, ViewAssumption DEF SetWatchAddr
      <3> QED  BY <3>1, <3>2
    <2>3. ShowPage(pageBase(watchAddr', pageSize))
      BY <1>5 DEF SetWatchAddr
    <2>4. IsPage(pageBase(watchAddr', pageSize), pageSize)
      BY <1>0, <2>2, BaseIsPage
    <2>5. /\ viewPageBase' \in Addr /\ pageBase(viewPageBase', pageSize') = viewPageBase'
          /\ scrollTop' \in Nat
      BY <1>0, <2>1, <2>3, <2>4, ShowPageTypes
    <2> QED  BY <2>1, <2>2, <2>5, Zenon DEF PageTypes
  <1>6. CASE SetPageSize
    <2>1. UNCHANGED <<status, viewMode, bytesPerRow, plane, watchAddr>>
          /\ pageSize' \in PageSizes /\ ShowPage(pageBase(viewPageBase, pageSize'))
      BY <1>6 DEF SetPageSize, Unfocused, busVars, fixed
    <2>2. IsPage(pageBase(viewPageBase, pageSize'), pageSize')
      BY <1>0, <2>1, BaseIsPage DEF IsPage
    <2>3. /\ viewPageBase' \in Addr /\ pageBase(viewPageBase', pageSize') = viewPageBase'
          /\ scrollTop' \in Nat
      BY <2>1, <2>2, ShowPageTypes
    <2> QED  BY <2>1, <2>3, Zenon DEF PageTypes
  <1>7. CASE SetBytesPerRow
    <2>1. /\ UNCHANGED <<status, viewMode, pageSize, plane, watchAddr, viewPageBase, scrollTop>>
          /\ bytesPerRow' \in RowSizes
      BY <1>7 DEF SetBytesPerRow, Unfocused, busVars, fixed
    <2> QED  BY <2>1, Zenon DEF PageTypes
  <1>8. CASE SetIoViewMode
    <2>1. /\ UNCHANGED <<status, bytesPerRow, pageSize, plane, viewPageBase>>
          /\ plane # "mem" /\ viewMode' \in {"16bit", "8bit"} /\ scrollTop' = 0
          /\ watchAddr' = IF viewMode' = "8bit" THEN watchAddr % Ports ELSE watchAddr
      BY <1>8 DEF SetIoViewMode, Unfocused, busVars, fixed
    <2>2. watchAddr' \in Addr
      <3>1. watchAddr \in Int
        BY <1>0 DEF Addr
      <3>2. watchAddr % Ports \in 0 .. Ports - 1
        BY <3>1, PortsFit, DivMod
      <3>3. watchAddr % Ports \in Addr
        BY <3>2, PortsFit DEF Addr
      <3> QED  BY <1>0, <2>1, <3>3
    <2> QED  BY <2>1, <2>2, Zenon DEF PageTypes
  <1> QED  BY <1>1, <1>2, <1>3, <1>4, <1>5, <1>6, <1>7, <1>8 DEF ViewNext

-----------------------------------------------------------------------------
(* The bus. *)

PlanesOf(p) ==
  p \in [mem : [Addr -> Byte], rd : [Addr -> Byte], wr : [Addr -> Byte]]

LEMMA OneByte ==
  ASSUME PlanesOf(planes), NEW a, NEW v \in Byte
  PROVE  /\ PlanesOf([planes EXCEPT !.mem[a] = v])
         /\ PlanesOf([planes EXCEPT !.rd[a] = v])
         /\ PlanesOf([planes EXCEPT !.wr[a] = v])
  BY DEF PlanesOf

LEMMA WroteTypes ==
  ASSUME BusTypes, PageTypes, NEW a, NEW v \in Byte
  PROVE  PlanesOf(Wrote(a, v))
  <1>0. PlanesOf(planes)
    BY DEF BusTypes, PlanesOf
  <1>1. CASE plane = "mem"
    <2>1. Wrote(a, v) = [planes EXCEPT !.mem[a] = v]
      BY <1>1 DEF Wrote
    <2>2. PlanesOf([planes EXCEPT !.mem[a] = v])
      BY <1>0, OneByte
    <2> QED  BY <2>1, <2>2
  <1>2. CASE plane = "rd" /\ viewMode = "16bit"
    <2>1. Wrote(a, v) = [planes EXCEPT !.rd[a] = v]
      BY <1>2 DEF Wrote
    <2>2. PlanesOf([planes EXCEPT !.rd[a] = v])
      BY <1>0, OneByte
    <2> QED  BY <2>1, <2>2
  <1>3. CASE plane = "rd" /\ viewMode = "8bit"
    <2> DEFINE copies == [b \in Addr |-> IF b \in Aliases(a) THEN v ELSE planes.rd[b]]
    <2>1. Wrote(a, v) = [planes EXCEPT !.rd = copies]
      BY <1>3 DEF Wrote
    <2>2. copies \in [Addr -> Byte]
      BY <1>0 DEF PlanesOf
    <2> HIDE DEF copies
    <2>3. PlanesOf([planes EXCEPT !.rd = copies])
      BY <1>0, <2>2 DEF PlanesOf
    <2> QED  BY <2>1, <2>3
  <1>4. CASE plane = "wr"
    BY <1>0, <1>4 DEF Wrote
  <1> QED  BY <1>1, <1>2, <1>3, <1>4 DEF PageTypes, Planes

LEMMA CommitTypes ==
  ASSUME BusTypes, PageTypes, NEW a, Commit(a) \/ UNCHANGED planes
  PROVE  PlanesOf(planes')
  <1>1. CASE UNCHANGED planes
    BY <1>1 DEF BusTypes, PlanesOf
  <1>2. CASE edit.text \in Byte /\ planes' = Wrote(a, edit.text)
    BY <1>2, WroteTypes
  <1> QED  BY <1>1, <1>2, Zenon DEF Commit

(* The last of the files that cover an address is one of the files.        *)
LEMMA LastCovering ==
  ASSUME NEW chosen, chosen \subseteq DOMAIN Files, chosen # {}
  PROVE  Max(chosen) \in chosen
  <1>1. chosen \subseteq 0 .. Len(Files) /\ Len(Files) \in Nat
    BY ViewAssumption
  <1>2. PICK n \in chosen : \A m \in chosen : m <= n
    BY <1>1, Greatest
  <1>3. \A m \in chosen : n >= m
    BY <1>1, <1>2
  <1> QED  BY <1>3, Zenon DEF Max

LEMMA FileTypes ==
  ASSUME NEW i \in DOMAIN Files
  PROVE  Files[i].loadAddr \in Addr /\ Files[i].bytes \in Seq(Byte)
  <1> DEFINE S == Seq(Byte)
             R == [loadAddr : Addr, bytes : S]
  <1>1. Files \in Seq(R)
    BY ViewAssumption
  <1>2. Files[i] \in R
    <2> HIDE DEF R
    <2> QED  BY <1>1
  <1>3. Files[i].loadAddr \in Addr /\ Files[i].bytes \in S
    <2> HIDE DEF S
    <2> QED  BY <1>2
  <1> QED  BY <1>3

LEMMA FilesWriteBytes ==
  ASSUME PlanesOf(planes), NEW chosen, chosen \subseteq DOMAIN Files
  PROVE  writeBytesToMem(chosen) \in [Addr -> Byte]
  <1> DEFINE Covering(a) == {i \in chosen : a - Files[i].loadAddr \in 0 .. Len(Files[i].bytes) - 1}
             Result(a) == IF Covering(a) = {} THEN planes.mem[a]
                          ELSE LET f == Files[Max(Covering(a))] IN f.bytes[a - f.loadAddr + 1]
  <1>1. ASSUME NEW a \in Addr PROVE Result(a) \in Byte
    <2>1. CASE Covering(a) = {}
      <3>1. planes.mem[a] \in Byte
        BY DEF PlanesOf
      <3> QED  BY <2>1, <3>1
    <2>2. CASE Covering(a) # {}
      <3> DEFINE C == Covering(a)
                 n == Max(C)
      <3>1. C \subseteq DOMAIN Files /\ C # {}
        BY <2>2
      <3>2. n \in C
        <4> HIDE DEF C
        <4> QED  BY <3>1, LastCovering
      <3>3. n \in DOMAIN Files /\ a - Files[n].loadAddr \in 0 .. Len(Files[n].bytes) - 1
        <4>1. \A i \in C : i \in DOMAIN Files /\ a - Files[i].loadAddr \in 0 .. Len(Files[i].bytes) - 1
          OBVIOUS
        <4> HIDE DEF n, C
        <4> QED  BY <3>2, <4>1
      <3>4. Result(a) = Files[n].bytes[a - Files[n].loadAddr + 1]
        BY <2>2
      <3> HIDE DEF n, C
      <3>5. Files[n].bytes \in Seq(Byte)
        BY <3>3, FileTypes
      <3> DEFINE bytes == Files[n].bytes
                 k == a - Files[n].loadAddr
      <3>6. bytes \in Seq(Byte) /\ k \in 0 .. Len(bytes) - 1
        BY <3>3, <3>5
      <3>7. bytes[k + 1] \in Byte
        <4> HIDE DEF bytes, k
        <4> QED  BY <3>6
      <3> QED  BY <3>4, <3>7
    <2> QED  BY <2>1, <2>2
  <1>2. writeBytesToMem(chosen) = [a \in Addr |-> Result(a)]
    BY DEF writeBytesToMem
  <1> HIDE DEF Result
  <1> QED  BY <1>1, <1>2

LEMMA BusTypesKept ==
  ASSUME VInv, [ViewNext]_viewVars
  PROVE  BusTypes'
  <1>0. BusTypes /\ PageTypes /\ PlanesOf(planes)
    BY DEF VInv, BusTypes, PlanesOf
  <1> SUFFICES PlanesOf(planes') /\ pc' \in Addr
    BY Zenon DEF BusTypes, PlanesOf
  <1>1. CASE Click \/ Focus \/ Type \/ Escape \/ PageNav \/ SetWatchAddr \/ SetPageSize
             \/ SetBytesPerRow \/ SetIoViewMode \/ SetColumns \/ Run \/ Pause \/ UNCHANGED viewVars
    <2>1. planes' = planes /\ pc' = pc
      BY <1>1, Zenon DEF Click, Focus, Type, Escape, PageNav, SetWatchAddr, SetPageSize, SetBytesPerRow,
             SetIoViewMode, SetColumns, Run, Pause, busVars, viewVars
    <2> QED  BY <1>0, <2>1 DEF BusTypes
  <1>2. CASE Enter \/ Blur \/ Scroll
    <2>1. pc' = pc /\ (Commit(CellAddr(edit.row, edit.col)) \/ UNCHANGED planes)
      BY <1>2, Zenon DEF Enter, EnterCommits, CommitThenAdvance, EnterRefuses, Blur, Scroll, busVars
    <2>2. PlanesOf(planes')
      BY <1>0, <2>1, CommitTypes
    <2> QED  BY <1>0, <2>1, <2>2 DEF BusTypes
  <1>3. CASE CpuStep
    <2>1. pc' \in Addr
      BY <1>3, ViewAssumption DEF CpuStep
    <2>2. PICK a \in Watches, v \in Typed \cap Byte :
            planes' \in {[planes EXCEPT !.mem[a] = v],
                    IF splitIo THEN [planes EXCEPT !.wr[a] = v] ELSE [planes EXCEPT !.rd[a] = v]}
      BY <1>3 DEF CpuStep
    <2>3. /\ PlanesOf([planes EXCEPT !.mem[a] = v])
          /\ PlanesOf([planes EXCEPT !.rd[a] = v])
          /\ PlanesOf([planes EXCEPT !.wr[a] = v])
      BY <1>0, OneByte
    <2>4. PlanesOf(planes')
      BY <2>2, <2>3
    <2> QED  BY <2>1, <2>4
  <1>4. CASE WriteFiles
    <2>1. PICK chosen \in {DOMAIN Files} \cup {{i} : i \in DOMAIN Files} :
            planes' = [planes EXCEPT !.mem = writeBytesToMem(chosen)]
      BY <1>4 DEF WriteFiles
    <2>2. chosen \subseteq DOMAIN Files
      BY <2>1
    <2> DEFINE bytes == writeBytesToMem(chosen)
    <2>3. bytes \in [Addr -> Byte]
      BY <1>0, <2>2, FilesWriteBytes
    <2>4. planes' = [planes EXCEPT !.mem = bytes]
      BY <2>1
    <2> HIDE DEF bytes
    <2>5. PlanesOf(planes')
      BY <1>0, <2>3, <2>4 DEF PlanesOf
    <2>6. pc' = pc
      BY <1>4 DEF WriteFiles
    <2> QED  BY <1>0, <2>5, <2>6 DEF BusTypes
  <1> QED  BY <1>1, <1>2, <1>3, <1>4 DEF ViewNext

-----------------------------------------------------------------------------
(* What the grid and the preview have read. *)

IsRead == shown = PageData(planes[plane], viewMode, viewPageBase, pageSize)

LEMMA ReadPageShape ==
  ASSUME PageTypes, IsRead
  PROVE  PageShown
  <1>1. viewMode \in {"16bit", "8bit"} /\ pageBase(viewPageBase, pageSize) = viewPageBase
    BY DEF PageTypes
  <1>2. CASE viewMode = "8bit"
    BY <1>2 DEF IsRead, PageData, PageShown
  <1>3. CASE viewMode = "16bit"
    BY <1>1, <1>3 DEF IsRead, PageData, PageShown
  <1> QED  BY <1>1, <1>2, <1>3

LEMMA ReadPageShapeNext ==
  ASSUME PageTypes', IsRead'
  PROVE  PageShown'
  BY ReadPageShape, PTL

SamePages == UNCHANGED <<shown, viewMode, plane>>
              /\ (viewMode # "8bit" => UNCHANGED <<viewPageBase, pageSize>>)

(* What is not read again is the page that was shown. *)
LEMMA RereadOrSame ==
  ASSUME PageTypes, PageShown, PageTypes', RereadPage, UNCHANGED plane
  PROVE  IsRead' \/ SamePages
  <1>1. CASE ~SamePage
    BY <1>1, Zenon DEF RereadPage, Reread, IsRead
  <1>2. CASE SamePage
    <2>1. UNCHANGED <<shown, viewMode>>
      BY <1>2 DEF RereadPage, SamePage
    <2>2. viewMode # "8bit" => pageSize' = pageSize /\ viewPageBase' = viewPageBase
      <3> SUFFICES ASSUME viewMode # "8bit" PROVE pageSize' = pageSize /\ viewPageBase' = viewPageBase
        OBVIOUS
      <3>1. pageSize' = pageSize /\ pageBase(viewPageBase', pageSize) = shown.start
        BY <1>2, <2>1 DEF SamePage
      <3>2. pageBase(viewPageBase', pageSize') = viewPageBase' /\ shown.start = viewPageBase
        BY DEF PageTypes, PageShown
      <3> QED  BY <3>1, <3>2
    <2> QED  BY <2>1, <2>2 DEF SamePages
  <1> QED  BY <1>1, <1>2

(* Every step reads the page again, or nothing a paused page shows changes.*)
LEMMA GridStep ==
  ASSUME VInv, [ViewNext]_viewVars, PageTypes'
  PROVE  \/ IsRead'
         \/ SamePages /\ (status' = "paused" => status = "paused" /\ planes'[plane] = planes[plane])
  <1>0. PageTypes /\ PageShown
    BY DEF VInv
  <1>1. CASE UNCHANGED <<planes, status, plane>> /\ (RereadPage \/ UNCHANGED <<shown, viewMode, pageVars>>)
    <2>1. IsRead' \/ SamePages
      BY <1>0, <1>1, RereadOrSame DEF SamePages, pageVars
    <2> QED  BY <1>1, <2>1
  <1>2. CASE Reread /\ UNCHANGED plane
    BY <1>2, Zenon DEF Reread, IsRead
  <1>3. CASE Click \/ Focus \/ Type \/ Escape \/ SetColumns \/ UNCHANGED viewVars
    <2>1. UNCHANGED <<planes, status, plane>> /\ UNCHANGED <<shown, viewMode, pageVars>>
      BY <1>3, Zenon DEF Click, Focus, Type, Escape, SetColumns, Unfocused, busVars, fixed, viewVars
    <2> QED  BY <1>1, <2>1
  <1>4. CASE Enter
    <2>1. UNCHANGED <<status, plane>> /\ (EnterRefuses \/ Commit(CellAddr(edit.row, edit.col)))
      BY <1>4, Zenon DEF Enter, EnterCommits, EnterRefuses, CommitThenAdvance, busVars, fixed
    <2>2. EnterRefuses => UNCHANGED <<planes, shown, viewMode, pageVars>>
      BY Zenon DEF EnterRefuses, busVars
    <2> QED  BY <1>1, <1>2, <2>1, <2>2, Zenon DEF Commit
  <1>5. CASE Blur \/ Scroll
    <2>1. UNCHANGED <<status, plane, viewMode>>
      BY <1>5, Zenon DEF Blur, Scroll, fixed
    <2>2. (UNCHANGED <<planes, shown>> /\ Scroll) \/ Commit(CellAddr(edit.row, edit.col))
      BY <1>5, Zenon DEF Blur, Scroll
    <2>3. CASE UNCHANGED <<planes, shown>> /\ Scroll
      <3>1. SamePages
        BY <2>1, <2>3, Zenon DEF Scroll, SamePages
      <3> QED  BY <2>1, <2>3, <3>1
    <2> QED  BY <1>1, <1>2, <2>1, <2>2, <2>3, Zenon DEF Commit
  <1>6. CASE PageNav \/ SetWatchAddr \/ SetPageSize \/ SetBytesPerRow \/ SetIoViewMode
    <2>1. UNCHANGED <<planes, status, plane>> /\ RereadPage
      BY <1>6, Zenon DEF PageNav, SetWatchAddr, SetPageSize, SetBytesPerRow, SetIoViewMode, Resized,
             Unfocused, busVars, fixed
    <2> QED  BY <1>1, <2>1
  <1>7. CASE Pause
    BY <1>2, <1>7, Zenon DEF Pause, BumpAll, fixed
  <1>8. CASE Run \/ CpuStep
    <2>1. status' # "paused" /\ UNCHANGED <<shown, viewMode, plane, pageVars>>
      BY <1>8 DEF Run, CpuStep, Unfocused, fixed
    <2> QED  BY <2>1 DEF SamePages, pageVars
  <1>9. CASE WriteFiles
    <2>1. /\ UNCHANGED <<status, pc, plane, splitIo, viewMode, pageVars, failed>>
          /\ bumpMemVersion
      BY <1>9, Zenon DEF WriteFiles, Unfocused, fixed
    <2>2. CASE plane = "mem"
      BY <1>2, <2>1, <2>2, Zenon DEF bumpMemVersion
    <2>3. CASE plane # "mem"
      <3>1. SamePages /\ status' = status
        BY <2>1, <2>3 DEF bumpMemVersion, SamePages, pageVars
      <3>2. PICK chosen : planes' = [planes EXCEPT !.mem = writeBytesToMem(chosen)]
        BY <1>9 DEF WriteFiles
      <3> DEFINE bytes == writeBytesToMem(chosen)
      <3>3. planes' = [planes EXCEPT !.mem = bytes]
        BY <3>2
      <3>4. plane \in {"rd", "wr"} /\ PlanesOf(planes)
        BY <2>3 DEF VInv, PageTypes, BusTypes, PlanesOf, Planes
      <3> HIDE DEF bytes
      <3>5. planes'[plane] = planes[plane]
        BY <3>3, <3>4 DEF PlanesOf
      <3> QED  BY <3>1, <3>5
    <2> QED  BY <2>2, <2>3
  <1> QED  BY <1>3, <1>4, <1>5, <1>6, <1>7, <1>8, <1>9 DEF ViewNext

LEMMA GridKept ==
  ASSUME VInv, [ViewNext]_viewVars
  PROVE  PageShown' /\ GridCurrent'
  <1>0. PageTypes /\ PageShown /\ GridCurrent
    BY DEF VInv
  <1>1. PageTypes'
    BY <1>0, PageTypesKept
  <1>2. CASE IsRead'
    BY <1>1, <1>2, ReadPageShapeNext DEF IsRead, GridCurrent
  <1>3. CASE SamePages /\ (status' = "paused" => status = "paused" /\ planes'[plane] = planes[plane])
    <2>1. PageShown'
      BY <1>0, <1>3, Zenon DEF SamePages, PageShown
    <2>2. GridCurrent'
      <3>1. CASE viewMode # "8bit"
        BY <1>0, <1>3, <3>1, Zenon DEF SamePages, GridCurrent
      <3>2. CASE viewMode = "8bit"
        BY <1>0, <1>3, <3>2 DEF SamePages, GridCurrent, PageData
      <3> QED  BY <3>1, <3>2
    <2> QED  BY <2>1, <2>2
  <1> QED  BY <1>1, <1>2, <1>3, GridStep

LEMMA PreviewKept ==
  ASSUME VInv, [ViewNext]_viewVars
  PROVE  PreviewCurrent'
  <1>0. PreviewCurrent
    BY DEF VInv
  <1>1. CASE UNCHANGED <<planes, pc, preview, status>>
    BY <1>0, <1>1, Zenon DEF PreviewCurrent
  <1>2. CASE status' # "paused"
    BY <1>2 DEF PreviewCurrent
  <1>3. CASE Redraw
    BY <1>3 DEF Redraw, PreviewCurrent
  <1>4. CASE Click \/ Focus \/ Type \/ Escape \/ PageNav \/ SetWatchAddr \/ SetPageSize
             \/ SetBytesPerRow \/ SetIoViewMode \/ SetColumns \/ UNCHANGED viewVars
    <2>1. UNCHANGED <<planes, pc, preview, status>>
      BY <1>4, Zenon DEF Click, Focus, Type, Escape, PageNav, SetWatchAddr, SetPageSize,
             SetBytesPerRow, SetIoViewMode, SetColumns, busVars, viewVars
    <2> QED  BY <1>1, <2>1
  <1>5. CASE Enter \/ Blur \/ Scroll
    <2>1. UNCHANGED <<pc, status>>
      BY <1>5, Zenon DEF Enter, EnterCommits, EnterRefuses, Blur, Scroll, busVars
    <2>2. UNCHANGED <<planes, preview>> \/ Commit(CellAddr(edit.row, edit.col))
      BY <1>5, Zenon DEF Enter, EnterCommits, EnterRefuses, CommitThenAdvance, Blur, Scroll, busVars
    <2>3. Redraw \/ UNCHANGED <<planes, preview>>
      BY <2>2, Zenon DEF Commit
    <2> QED  BY <1>1, <1>3, <2>1, <2>3
  <1>6. CASE Pause \/ WriteFiles
    BY <1>3, <1>6, Zenon DEF Pause, BumpAll, WriteFiles, bumpMemVersion
  <1>7. CASE Run \/ CpuStep
    BY <1>2, <1>7 DEF Run, CpuStep
  <1> QED  BY <1>4, <1>5, <1>6, <1>7 DEF ViewNext

-----------------------------------------------------------------------------
(* The editors and their cells. *)

LEMMA FirstRowIsNat ==
  ASSUME PageTypes
  PROVE  windowRange.first \in Nat
  <1>1. scrollTop \in Nat /\ pageSize \div bytesPerRow \in Nat
    BY PageSizeTypes DEF PageTypes
  <1> QED  BY <1>1, VirtualWindow DEF windowRange

LEMMA FirstRowIsNatNext ==
  ASSUME PageTypes'
  PROVE  (windowRange.first \in Nat)'
  BY FirstRowIsNat, PTL

(* The place of a page that is shown, before and after a step. *)
PlaceTypes(mode, start, first, n) ==
  /\ mode \in {"16bit", "8bit"} /\ start \in Nat /\ first \in Nat
  /\ n \in Nat \ {0} /\ Ports % n = 0 /\ (mode = "8bit" => start = 0)

LEMMA Placement ==
  ASSUME PageTypes, PageShown
  PROVE  PlaceTypes(viewMode, shown.start, windowRange.first, bytesPerRow)
  <1>1. bytesPerRow \in Nat \ {0} /\ Ports % bytesPerRow = 0
    BY PageSizeTypes DEF PageTypes
  <1>2. windowRange.first \in Nat
    BY FirstRowIsNat
  <1>3. viewMode \in {"16bit", "8bit"} /\ shown.start \in Nat /\ (viewMode = "8bit" => shown.start = 0)
    BY DEF PageTypes, PageShown, Addr
  <1> QED  BY <1>1, <1>2, <1>3 DEF PlaceTypes

LEMMA PlacementNext ==
  ASSUME PageTypes', PageShown'
  PROVE  PlaceTypes(viewMode, shown.start, windowRange.first, bytesPerRow)'
  BY Placement, PTL

LEMMA CellAddrAt ==
  ASSUME NEW row, NEW col
  PROVE  CellAddr(row, col)
           = CellAt(viewMode, shown.start, windowRange.first, bytesPerRow, row, col)
  BY DEF CellAddr, CellAt

LEMMA CellInCells ==
  ASSUME NEW mode, NEW start, NEW first, NEW n, PlaceTypes(mode, start, first, n),
         NEW row \in Nat, NEW col \in Nat,
         mode = "8bit" => row \in 0 .. Ports \div n - 1 /\ col \in 0 .. n - 1
  PROVE  CellAt(mode, start, first, n, row, col) \in AddrsOf(mode)
  <1>1. n \in Nat \ {0} /\ Ports % n = 0 /\ start \in Nat /\ first \in Nat
    BY DEF PlaceTypes
  <1>2. CASE mode = "8bit"
    <2>1. row * n + col \in 0 .. Ports - 1
      BY <1>1, <1>2, PortsFit, CellInSpace
    <2> QED  BY <1>2, <2>1 DEF CellAt, AddrsOf
  <1>3. CASE mode # "8bit"
    <2> DEFINE r == first + row
               b == start + r * n + col
    <2>1. b \in Nat
      <3>1. r \in Nat
        BY <1>1
      <3> HIDE DEF r
      <3>2. r * n \in Nat
        BY <1>1, <3>1
      <3> QED  BY <1>1, <3>2
    <2>2. CellAt(mode, start, first, n, row, col) = b % Size
      BY <1>3 DEF CellAt
    <2> HIDE DEF b
    <2>3. b % Size \in 0 .. Size - 1
      BY <2>1, PortsFit, DivMod
    <2> QED  BY <1>3, <2>2, <2>3 DEF AddrsOf, Addr
  <1> QED  BY <1>2, <1>3

(* The cell of an address. *)
LEMMA CellFound ==
  ASSUME NEW mode, NEW s \in Nat, NEW first \in Nat, NEW n \in Nat \ {0}, NEW a \in Addr,
         mode = "8bit" => s = 0 /\ first = 0,
         NEW cell, cell = (a - s) % Size, cell \div n >= first,
         NEW k, k = cell \div n - first, NEW r, r = cell % n
  PROVE  k \in Nat /\ r \in Nat /\ CellAt(mode, s, first, n, k, r) = a
  <1> DEFINE q == cell \div n
  <1>1. Size \in Nat \ {0}
    BY PortsFit
  <1>2. a \in Int /\ a \in 0 .. Size - 1 /\ a - s \in Int
    BY <1>1 DEF Addr
  <1>3. cell \in 0 .. Size - 1
    BY <1>1, <1>2, DivMod
  <1>4. q \in Nat /\ r \in Nat /\ q * n + r = cell
    <2>1. cell \in Nat
      BY <1>1, <1>3
    <2> QED  BY <2>1, RowAndColumn
  <1>5. q >= first
    OBVIOUS
  <1>6. q - first \in Nat /\ first + (q - first) = q
    <2> HIDE DEF q
    <2> QED  BY <1>4, <1>5
  <1>7. CellAt(mode, s, first, n, q - first, r) = a
    <2>1. CASE mode = "8bit"
      <3>1. s = 0 /\ first = 0
        BY <2>1
      <3>2. cell = a
        <4>1. a - s = a
          BY <1>2, <3>1
        <4>2. a % Size = a
          BY <1>1, <1>2, ModSmall
        <4> QED  BY <4>1, <4>2
      <3>3. q - first = q
        <4> HIDE DEF q
        <4> QED  BY <1>4, <3>1
      <3>4. CellAt(mode, s, first, n, q - first, r) = q * n + r
        <4> HIDE DEF q
        <4> QED  BY <2>1, <3>3 DEF CellAt
      <3> QED  BY <1>4, <3>2, <3>4
    <2>2. CASE mode # "8bit"
      <3>1. CellAt(mode, s, first, n, q - first, r) = (s + (first + (q - first)) * n + r) % Size
        <4> HIDE DEF q
        <4> QED  BY <2>2 DEF CellAt
      <3>2. s + q * n + r = s + cell
        <4>1. q * n \in Nat
          <5> HIDE DEF q
          <5> QED  BY <1>4
        <4> HIDE DEF q
        <4> QED  BY <1>4, <4>1
      <3>3. (s + cell) % Size = a % Size
        <4>1. Size \in Nat \ {0} /\ a \in Int /\ s \in Int
          BY <1>1, <1>2
        <4>2. (s + ((a - s) % Size)) % Size = a % Size
          BY <4>1, ModAgain, ZenonT(20)
        <4> QED  BY <4>2
      <3>4. a % Size = a
        BY <1>1, <1>2, ModSmall
      <3> HIDE DEF q
      <3> QED  BY <1>6, <3>1, <3>2, <3>3, <3>4
    <2> QED  BY <2>1, <2>2
  <1> QED  BY <1>4, <1>6, <1>7

LEMMA NoEditorRow ==
  ASSUME NEW e, DOMAIN e = EditorFields
  PROVE  e # NoEditor
  <1>1. DOMAIN NoEditor = {"row"}
    BY DEF NoEditor
  <1>2. "col" \in DOMAIN e
    BY DEF EditorFields
  <1> QED  BY <1>1, <1>2

LEMMA EditorsNext ==
  ASSUME edit' # NoEditor => InPlaceNext(edit'), \A e \in left' : InPlaceNext(e)
  PROVE  EditorsInPlace'
  BY DEF EditorsInPlace, InPlace, InPlaceNext, Editing

(* An editor that stays where it is, on a page that stays where it is.     *)
LEMMA SamePlace ==
  ASSUME UNCHANGED <<viewMode, pageVars>>, PageShown, PageShown'
  PROVE  /\ \A e : InPlace(e) <=> InPlaceNext(e)
         /\ \A row, col : CellAddr(row, col)'= CellAddr(row, col)
  <1>1. UNCHANGED <<viewMode, viewPageBase, scrollTop, pageSize, bytesPerRow>>
    BY DEF pageVars
  <1>2. shown'.start = shown.start
    BY <1>1 DEF PageShown
  <1>3. windowRange'.first = windowRange.first
    BY <1>1 DEF windowRange
  <1>4. \A e : InPlace(e) <=> InPlaceNext(e)
    BY <1>1, <1>2, <1>3 DEF InPlace, InPlaceNext
  <1>5. \A row, col : CellAddr(row, col)' = CellAddr(row, col)
    BY <1>1, <1>2, <1>3 DEF CellAddr
  <1> QED  BY <1>4, <1>5

(* New text in an editor leaves it where it is. *)
LEMMA Retyped ==
  ASSUME NEW t, NEW e, NEW mode, NEW start, NEW first, NEW n, Over(e, mode, start, first, n)
  PROVE  /\ Over([e EXCEPT !.text = t], mode, start, first, n)
         /\ [e EXCEPT !.text = t].opened = e.opened /\ [e EXCEPT !.text = t].lane = e.lane
  <1> DEFINE k == [e EXCEPT !.text = t]
  <1>1. DOMAIN e = EditorFields
    BY DEF Over
  <1>2. /\ DOMAIN k = DOMAIN e /\ k.row = e.row /\ k.col = e.col /\ k.opened = e.opened
        /\ k.moved = e.moved /\ k.lane = e.lane
    BY <1>1 DEF EditorFields
  <1> HIDE DEF k
  <1>3. Over(k, mode, start, first, n)
    BY <1>2 DEF Over
  <1> QED  BY <1>2, <1>3 DEF k

(* And so does the mark that its rows moved, when they did. *)
LEMMA MarkedIfMoved ==
  ASSUME PageTypes', PageShown', viewMode = "16bit", viewMode' = "16bit", NEW e, InPlace(e),
         NEW k, k = [e EXCEPT !.moved = e.moved \/ Moves]
  PROVE  InPlaceNext(k) /\ k.opened = e.opened /\ k.lane = e.lane
  <1> DEFINE m == e.moved \/ Moves
  <1>1. DOMAIN e = EditorFields /\ e.row \in Nat /\ e.col \in Nat
    BY DEF InPlace, Over
  <1>2. /\ DOMAIN k = DOMAIN e /\ k.row = e.row /\ k.col = e.col /\ k.opened = e.opened
        /\ k.lane = e.lane /\ k.moved = m
    <2>1. k = [e EXCEPT !.moved = m]
      OBVIOUS
    <2> HIDE DEF m
    <2> QED  BY <1>1, <2>1 DEF EditorFields
  <1>3. CellAt(viewMode', shown'.start, windowRange'.first, bytesPerRow', k.row, k.col)
          \in AddrsOf(viewMode')
    <2>1. PlaceTypes(viewMode', shown'.start, windowRange'.first, bytesPerRow')
      BY PlacementNext
    <2> QED  BY <1>1, <1>2, <2>1, CellInCells
  <1>4. ~k.moved => k.opened = CellAt(viewMode', shown'.start, windowRange'.first, bytesPerRow', k.row, k.col)
    <2> SUFFICES ASSUME ~k.moved
                 PROVE  k.opened
                          = CellAt(viewMode', shown'.start, windowRange'.first, bytesPerRow', k.row, k.col)
      OBVIOUS
    <2>1. ~m
      <3> HIDE DEF m
      <3> QED  BY <1>2, Zenon
    <2>2. ~e.moved /\ ~Moves
      BY <2>1, Zenon
    <2>3. shown'.start = shown.start /\ windowRange'.first = windowRange.first /\ bytesPerRow' = bytesPerRow
      BY <2>2, Zenon DEF Moves
    <2>4. e.opened = CellAt(viewMode, shown.start, windowRange.first, bytesPerRow, e.row, e.col)
      BY <2>2, Zenon DEF InPlace, Over
    <2> HIDE DEF m
    <2> QED  BY <1>2, <2>3, <2>4
  <1> HIDE DEF m
  <1>5. InPlaceNext(k)
    <2>1. DOMAIN k = EditorFields /\ k.row \in Nat /\ k.col \in Nat
      BY <1>1, <1>2
    <2> QED  BY <1>3, <1>4, <2>1, Zenon DEF InPlaceNext, Over
  <1> QED  BY <1>2, <1>5

LEMMA KeptInPlace ==
  ASSUME VInv, PageTypes', PageShown', UNCHANGED viewMode
  PROVE  (\A e \in Kept : InPlaceNext(e)) /\ (Kept # {} => left # {})
  <1>1. Kept # {} => left # {}
    BY DEF Kept
  <1>2. ASSUME NEW k \in Kept PROVE InPlaceNext(k)
    <2>1. PICK e \in left : k = [e EXCEPT !.moved = e.moved \/ Moves]
      BY Zenon DEF Kept
    <2>2. InPlace(e)
      BY <2>1 DEF VInv, EditorsInPlace
    <2>3. viewMode = "16bit"
      BY <2>1 DEF VInv, AsciiOfMemory, PageTypes
    <2> QED  BY <2>1, <2>2, <2>3, MarkedIfMoved
  <1> QED  BY <1>1, <1>2

(* The address a byte goes to, and the one after it. *)
Here  == CellAddr(edit.row, edit.col)
There == (Here + 1) % space

LEMMA HereIsPlace ==
  ASSUME VInv, Editing
  PROVE  Here \in Cells /\ (~edit.moved => edit.opened = Here)
  <1>1. InPlace(edit)
    BY DEF VInv, EditorsInPlace
  <1>2. Here = CellAt(viewMode, shown.start, windowRange.first, bytesPerRow, edit.row, edit.col)
    BY CellAddrAt DEF Here
  <1> QED  BY <1>1, <1>2, Zenon DEF InPlace, Over, Cells

LEMMA ThereInCells ==
  ASSUME VInv, Editing
  PROVE  There \in Cells
  <1>1. Here \in Cells
    BY HereIsPlace
  <1>2. space \in Nat \ {0} /\ Cells = 0 .. space - 1
    BY PortsFit DEF space, Cells, AddrsOf, Addr
  <1>3. Here + 1 \in Int
    BY <1>1, <1>2
  <1>4. (Here + 1) % space \in 0 .. space - 1
    <2> DEFINE h == Here + 1
               sp == space
    <2>1. h \in Int /\ sp \in Nat \ {0}
      BY <1>2, <1>3
    <2> HIDE DEF h, sp
    <2>2. h % sp \in 0 .. sp - 1
      BY <2>1, DivMod
    <2> QED  BY <2>2 DEF h, sp
  <1> QED  BY <1>2, <1>4 DEF There

(* The editor that Enter opens, or seeds afresh, at the next address. *)
NextFirst == IF viewMode = "8bit" THEN 0 ELSE windowRange'.first
NextCell  == (There - shown'.start) % Size
NextRow   == NextCell \div bytesPerRow - NextFirst
NextEditor == Editor(edit.lane, NextRow, NextCell % bytesPerRow, There, shown'.buf[NextCell])
NextThere == {e \in Kept : <<e.lane, e.row, e.col>> = <<NextEditor.lane, NextEditor.row, NextEditor.col>>}

NextMounted == IF viewMode = "8bit" THEN Ports \div bytesPerRow
               ELSE RowsMounted(scrollTop', pageSize, bytesPerRow)

LEMMA EnterClicks ==
  ASSUME EnterCommits
  PROVE  /\ UNCHANGED <<status, viewMode, pageSize, bytesPerRow>> /\ advance(Here) /\ Commit(Here)
         /\ IF status = "paused" /\ NextCell \in DOMAIN shown'.buf /\ NextRow \in 0 .. NextMounted - 1
              THEN /\ edit' = IF NextThere = {} THEN NextEditor ELSE NoEditor
                   /\ left' = (Kept \ NextThere) \cup (IF NextThere = {} THEN {} ELSE {NextEditor})
              ELSE edit' = NoEditor /\ left' = Kept
  <1>1. UNCHANGED <<status, viewMode, pageSize, bytesPerRow>> /\ CommitThenAdvance(Here)
    BY Zenon DEF EnterCommits, Here
  <1>2. advance(Here) /\ Commit(Here) /\ ClickNext(There)
    BY <1>1, Zenon DEF CommitThenAdvance, There
  <1> QED  BY <1>1, <1>2, Zenon DEF ClickNext, NextFirst, NextCell, NextRow, NextEditor, NextThere, NextMounted

LEMMA NextInPlace ==
  ASSUME VInv, Editing, EnterCommits, PageTypes', PageShown', NextRow \in 0 .. NextMounted - 1
  PROVE  InPlaceNext(NextEditor) /\ NextEditor.opened = There /\ NextEditor.lane = edit.lane
  <1>1. UNCHANGED <<status, viewMode, pageSize, bytesPerRow>>
    BY EnterClicks
  <1> DEFINE b == There
             s == shown'.start
             first == NextFirst
             n == bytesPerRow
             cell == (b - s) % Size
             row == cell \div n
             col == cell % n
             k == row - first
  <1>2. b \in AddrsOf(viewMode) /\ b \in Addr
    <2>1. There \in Cells
      BY ThereInCells
    <2> QED  BY <2>1, PortsFit DEF Cells, AddrsOf, Addr
  <1>3. PlaceTypes(viewMode, s, windowRange'.first, n)
    <2>1. PlaceTypes(viewMode', s, windowRange'.first, bytesPerRow')
      BY PlacementNext
    <2> QED  BY <1>1, <2>1
  <1>4. first \in Nat /\ s \in Nat /\ n \in Nat \ {0} /\ (viewMode = "8bit" => s = 0 /\ first = 0)
    BY <1>3 DEF PlaceTypes, NextFirst
  <1>5. NextCell = cell /\ NextRow = k /\ NextEditor = Editor(edit.lane, k, col, b, shown'.buf[cell])
    BY DEF NextCell, NextRow, NextEditor
  <1>6. row \in Nat
    <2>1. cell \in 0 .. Size - 1
      <3> DEFINE c == b - s
      <3>1. c \in Int /\ Size \in Nat \ {0}
        <4> HIDE DEF b, s
        <4> QED  BY <1>2, <1>4, PortsFit DEF Addr
      <3> HIDE DEF c
      <3>2. c % Size \in 0 .. Size - 1
        BY <3>1, DivMod
      <3> QED  BY <3>2 DEF c
    <2>2. cell \in Nat
      <3> HIDE DEF cell
      <3> QED  BY <2>1, PortsFit
    <2> HIDE DEF cell
    <2> QED  BY <1>4, <2>2, RowAndColumn
  <1>7. row >= first
    <2>1. k >= 0
      <3> DEFINE z == NextRow
      <3>1. z \in 0 .. NextMounted - 1
        OBVIOUS
      <3> HIDE DEF z
      <3>2. z >= 0
        BY <3>1
      <3> QED  BY <1>5, <3>2 DEF z
    <2> HIDE DEF row, first
    <2> QED  BY <1>4, <1>6, <2>1
  <1>8. k \in Nat /\ col \in Nat /\ CellAt(viewMode, s, first, n, k, col) = b
    <2> HIDE DEF b, s, first, n
    <2>1. PICK m, s0, f0, n0, b0, c0, k0, r0 :
            /\ m = viewMode /\ s0 = s /\ f0 = first /\ n0 = n /\ b0 = b
            /\ c0 = cell /\ k0 = k /\ r0 = col
      OBVIOUS
    <2>2. /\ s0 \in Nat /\ f0 \in Nat /\ n0 \in Nat \ {0} /\ b0 \in Addr
          /\ (m = "8bit" => s0 = 0 /\ f0 = 0)
      BY <1>2, <1>4, <2>1
    <2>3. c0 = (b0 - s0) % Size /\ c0 \div n0 >= f0 /\ k0 = c0 \div n0 - f0 /\ r0 = c0 % n0
      BY <1>7, <2>1
    <2>4. k0 \in Nat /\ r0 \in Nat /\ CellAt(m, s0, f0, n0, k0, r0) = b0
      BY <2>2, <2>3, CellFound
    <2> HIDE DEF k, col
    <2> QED  BY <2>1, <2>4
  <1>9. CellAt(viewMode, s, windowRange'.first, n, k, col) = b
    <2> HIDE DEF b, s, n, row, col
    <2> QED  BY <1>8 DEF CellAt, NextFirst
  <1> DEFINE v == shown'.buf[cell]
             l == edit.lane
             e == Editor(l, k, col, b, v)
  <1>10. /\ DOMAIN e = EditorFields /\ e.row = k /\ e.col = col /\ e.opened = b
         /\ e.moved = FALSE /\ e.lane = l
    <2> HIDE DEF l, k, col, b, v
    <2> QED  BY DEF Editor, EditorFields
  <1>11. Over(e, viewMode, s, windowRange'.first, n)
    <2> HIDE DEF e, k, col, b, s, n
    <2> QED  BY <1>2, <1>8, <1>9, <1>10 DEF Over
  <1>12. InPlaceNext(e)
    <2> HIDE DEF e
    <2> QED  BY <1>1, <1>11 DEF InPlaceNext
  <1> HIDE DEF k, col, b, cell
  <1> QED  BY <1>5, <1>10, <1>12 DEF b, cell

(* After Enter, an editor is over the next address or there is none.       *)
LEMMA EntryAdvances ==
  ASSUME VInv, Editing, EnterCommits, PageTypes', PageShown'
  PROVE  /\ edit' # NoEditor => InPlaceNext(edit') /\ edit'.opened = There /\ edit'.lane = edit.lane
         /\ \A e \in left' : InPlaceNext(e)
         /\ left' # {} => left # {}
  <1>1. UNCHANGED viewMode
    BY EnterClicks
  <1>2. (\A e \in Kept : InPlaceNext(e)) /\ (Kept # {} => left # {})
    BY <1>1, KeptInPlace
  <1>3. CASE status = "paused" /\ NextCell \in DOMAIN shown'.buf /\ NextRow \in 0 .. NextMounted - 1
    <2>1. InPlaceNext(NextEditor) /\ NextEditor.opened = There /\ NextEditor.lane = edit.lane
      BY <1>3, NextInPlace
    <2>2. /\ edit' = IF NextThere = {} THEN NextEditor ELSE NoEditor
          /\ left' = (Kept \ NextThere) \cup (IF NextThere = {} THEN {} ELSE {NextEditor})
      BY <1>3, EnterClicks, Zenon
    <2>3. NextThere \subseteq Kept
      BY DEF NextThere
    <2>4. CASE NextThere = {}
      <3>1. edit' = NextEditor /\ left' = Kept
        BY <2>2, <2>4
      <3> QED  BY <1>2, <2>1, <3>1
    <2>5. CASE NextThere # {}
      <3>1. edit' = NoEditor /\ left' = (Kept \ NextThere) \cup {NextEditor} /\ Kept # {}
        BY <2>2, <2>3, <2>5
      <3> QED  BY <1>2, <2>1, <3>1
    <2> QED  BY <2>4, <2>5
  <1>4. CASE ~(status = "paused" /\ NextCell \in DOMAIN shown'.buf /\ NextRow \in 0 .. NextMounted - 1)
    <2>1. edit' = NoEditor /\ left' = Kept
      BY <1>4, EnterClicks, Zenon
    <2> QED  BY <1>2, <2>1
  <1> QED  BY <1>3, <1>4

(* When the page turns, its first cell is mounted and an editor is on it.  *)
LEMMA TurnedPageIsEdited ==
  ASSUME VInv, Editing, EnterCommits, PageTypes', PageShown', OnLastCell(Here), status = "paused"
  PROVE  \E e \in left' \cup ({edit'} \ {NoEditor}) : e.opened = There
  <1>0. PageTypes
    BY DEF VInv
  <1>1. UNCHANGED <<status, viewMode, pageSize, bytesPerRow>> /\ advance(Here)
    BY EnterClicks
  <1>2. viewMode = "16bit"
    BY DEF OnLastCell
  <1>3. /\ watchAddr' = (Here + 1) % Size /\ viewPageBase' = watchAddr' /\ scrollTop' = 0
        /\ IsPage(viewPageBase', pageSize)
    BY <1>0, <1>1, AdvanceTurnsPage
  <1> DEFINE b == There
  <1>4. b = (Here + 1) % Size /\ shown'.start = b
    BY <1>1, <1>2, <1>3 DEF There, space, PageShown
  <1>5. b \in Nat
    BY <1>3, <1>4 DEF IsPage, Addr
  <1>6. pageSize \in Nat \ {0} /\ bytesPerRow \in Nat \ {0} /\ pageSize \div bytesPerRow \in Nat \ {0}
    BY <1>0, PageSizeTypes DEF PageTypes
  <1> DEFINE rows == computeVirtualWindow(0, pageSize \div bytesPerRow)
  <1>7. rows.first = 0 /\ rows.last >= 1 /\ rows.last \in Int
    <2>1. rows.first = 0 /\ rows.last >= 1
      BY <1>6, TopIsMounted
    <2>2. rows.last \in Int
      BY <1>6, VirtualWindow
    <2> QED  BY <2>1, <2>2
  <1>8. windowRange' = rows /\ NextMounted = rows.last - rows.first
    BY <1>1, <1>2, <1>3 DEF windowRange, NextMounted, RowsMounted
  <1>9. NextCell = 0
    <2>1. b - shown'.start = 0
      <3> HIDE DEF b
      <3> QED  BY <1>4, <1>5
    <2>2. 0 % Size = 0
      BY PortsFit, ModSmall
    <2> QED  BY <2>1, <2>2 DEF NextCell
  <1>10. NextRow = 0
    <2>1. NextFirst = 0
      <3> HIDE DEF rows
      <3> QED  BY <1>2, <1>7, <1>8 DEF NextFirst
    <2>2. 0 \div bytesPerRow = 0
      BY <1>6
    <2> QED  BY <1>9, <2>1, <2>2 DEF NextRow
  <1>11. NextRow \in 0 .. NextMounted - 1
    <2> HIDE DEF rows
    <2> QED  BY <1>7, <1>8, <1>10
  <1>12. NextCell \in DOMAIN shown'.buf
    <2>1. DOMAIN shown'.buf = 0 .. pageSize - 1
      BY <1>1, <1>2 DEF PageShown
    <2> QED  BY <1>6, <1>9, <2>1
  <1>13. InPlaceNext(NextEditor) /\ NextEditor.opened = There
    BY <1>11, NextInPlace
  <1>14. NextEditor # NoEditor
    <2> DEFINE e == NextEditor
    <2>1. DOMAIN e = EditorFields
      BY <1>13 DEF InPlaceNext, Over
    <2> HIDE DEF e
    <2>2. e # NoEditor
      BY <2>1, NoEditorRow
    <2> QED  BY <2>2 DEF e
  <1>15. /\ edit' = IF NextThere = {} THEN NextEditor ELSE NoEditor
         /\ left' = (Kept \ NextThere) \cup (IF NextThere = {} THEN {} ELSE {NextEditor})
    BY <1>11, <1>12, EnterClicks, Zenon
  <1>16. NextEditor \in left' \cup ({edit'} \ {NoEditor})
    BY <1>14, <1>15
  <1> QED  BY <1>13, <1>16

(* A click opens the editor of the cell, afresh if it is open. *)
LEMMA ClickedCell ==
  ASSUME VInv, Click, PageShown'
  PROVE  /\ InPlaceNext(edit') /\ (edit'.lane = "ascii" => "ascii" \in columns)
         /\ Editing => edit'.opened = Here
         /\ left' \subseteq left
  <1>0. PageTypes /\ PageShown
    BY DEF VInv
  <1>1. UNCHANGED <<viewMode, pageVars>>
    BY Zenon DEF Click
  <1>2. PICK lane \in columns, row \in Rows, col \in 0 .. bytesPerRow - 1 :
          /\ Editing => <<edit.lane, edit.row, edit.col>> = <<lane, row, col>>
          /\ edit' = Editor(lane, row, col, CellAddr(row, col), ShownByte(CellAddr(row, col)))
          /\ left' = left \ LeftAt(lane, row, col)
    BY Zenon DEF Click
  <1> DEFINE a == CellAddr(row, col)
             v == ShownByte(a)
  <1>3. edit' = Editor(lane, row, col, a, v)
    BY <1>2
  <1>4. PlaceTypes(viewMode, shown.start, windowRange.first, bytesPerRow)
    BY <1>0, Placement
  <1>5. row \in Nat /\ col \in Nat
        /\ (viewMode = "8bit" => row \in 0 .. Ports \div bytesPerRow - 1 /\ col \in 0 .. bytesPerRow - 1)
    <2>1. col \in Nat
      BY <1>0, PageSizeTypes DEF PageTypes
    <2>2. CASE viewMode = "8bit"
      <3> DEFINE q == Ports \div bytesPerRow
      <3>1. row \in 0 .. q - 1
        BY <2>2 DEF Rows
      <3>2. row \in Nat
        <4> HIDE DEF q
        <4> QED  BY <3>1
      <3> QED  BY <2>1, <2>2, <3>1, <3>2
    <2>3. CASE viewMode # "8bit"
      <3> DEFINE q == RowsMounted(scrollTop, pageSize, bytesPerRow)
      <3>1. row \in 0 .. q - 1
        BY <2>3 DEF Rows
      <3>2. row \in Nat
        <4> HIDE DEF q
        <4> QED  BY <3>1
      <3> QED  BY <2>1, <2>3, <3>2
    <2> QED  BY <2>2, <2>3
  <1>6. a = CellAt(viewMode, shown.start, windowRange.first, bytesPerRow, row, col)
        /\ a \in AddrsOf(viewMode)
    BY <1>4, <1>5, CellAddrAt, CellInCells
  <1>7. /\ DOMAIN edit' = EditorFields /\ edit'.lane = lane
        /\ edit'.row = row /\ edit'.col = col /\ edit'.opened = a /\ edit'.moved = FALSE
    <2> HIDE DEF a, v
    <2> QED  BY <1>3 DEF Editor, EditorFields
  <1>8. InPlaceNext(edit')
    <2>1. InPlace(edit')
      <3> HIDE DEF a
      <3> QED  BY <1>5, <1>6, <1>7 DEF InPlace, Over
    <2> QED  BY <1>0, <1>1, <2>1, SamePlace
  <1>9. Editing => Here = a
    <2> SUFFICES ASSUME Editing PROVE Here = a
      OBVIOUS
    <2>1. row = edit.row /\ col = edit.col
      BY <1>2
    <2> QED  BY <2>1 DEF Here
  <1> QED  BY <1>2, <1>7, <1>8, <1>9

(* A scroll takes the editor's row away, or marks it as moved.             *)
LEMMA ScrolledEditor ==
  ASSUME VInv, Scroll, PageTypes', PageShown', edit' # NoEditor
  PROVE  Editing /\ InPlaceNext(edit') /\ edit'.opened = edit.opened /\ edit'.lane = edit.lane
  <1>1. viewMode = "16bit" /\ viewMode' = "16bit"
    BY Zenon DEF Scroll
  <1>2. edit' = IF Editing THEN [edit EXCEPT !.moved = edit.moved \/ Moves] ELSE edit
    BY Zenon DEF Scroll
  <1>3. Editing
    BY <1>2 DEF Editing
  <1>4. edit' = [edit EXCEPT !.moved = edit.moved \/ Moves]
    BY <1>2, <1>3
  <1>5. InPlace(edit)
    BY <1>3 DEF VInv, EditorsInPlace
  <1> QED  BY <1>1, <1>3, <1>4, <1>5, MarkedIfMoved

LEMMA RetypedEditor ==
  ASSUME VInv, Editing, Type \/ (Enter /\ EnterRefuses), PageShown', edit' # NoEditor
  PROVE  InPlaceNext(edit') /\ edit'.opened = edit.opened /\ edit'.lane = edit.lane
  <1>0. InPlace(edit) /\ PageShown
    BY DEF VInv, EditorsInPlace
  <1>1. UNCHANGED <<viewMode, pageVars>>
    BY Zenon DEF Type, EnterRefuses
  <1>2. PICK t : edit' = [edit EXCEPT !.text = t]
    <2>1. CASE Type
      BY <2>1, Zenon DEF Type
    <2>2. CASE Enter /\ EnterRefuses
      BY <2>2, Zenon DEF EnterRefuses
    <2> QED  BY <2>1, <2>2
  <1>3. InPlace(edit') /\ edit'.opened = edit.opened /\ edit'.lane = edit.lane
    <2>1. Over(edit, viewMode, shown.start, windowRange.first, bytesPerRow)
      BY <1>0 DEF InPlace
    <2> QED  BY <1>2, <2>1, Retyped DEF InPlace
  <1> QED  BY <1>0, <1>1, <1>3, SamePlace

EditorsAfter ==
  /\ edit' # NoEditor => InPlaceNext(edit')
  /\ \A e \in left' : InPlaceNext(e)

(* What the ASCII column is of, and who is open in it, after a step. *)
AsciiAfter ==
  plane # "mem" =>
    "ascii" \notin columns' /\ (edit' # NoEditor => edit'.lane # "ascii") /\ left' = {}

LEMMA EditorsKept ==
  ASSUME VInv, [ViewNext]_viewVars, PageTypes', PageShown'
  PROVE  EditorsAfter /\ AsciiAfter
  <1>0. /\ PageTypes /\ PageShown
        /\ edit # NoEditor => InPlace(edit)
        /\ \A e \in left : InPlace(e)
        /\ plane # "mem" => "ascii" \notin columns /\ (edit # NoEditor => edit.lane # "ascii") /\ left = {}
    BY DEF VInv, EditorsInPlace, AsciiOfMemory, Editing
  <1>1. UNCHANGED <<viewMode, pageVars>> => \A e : InPlace(e) <=> InPlaceNext(e)
    BY <1>0, SamePlace
  <1>2. UNCHANGED viewMode => (\A e \in Kept : InPlaceNext(e)) /\ (Kept # {} => left # {})
    BY KeptInPlace
  <1>3. CASE Click
    <2>1. UNCHANGED <<viewMode, pageVars, columns>>
      BY <1>3, Zenon DEF Click
    <2>2. InPlaceNext(edit') /\ (edit'.lane = "ascii" => "ascii" \in columns) /\ left' \subseteq left
      BY <1>3, ClickedCell
    <2> QED  BY <1>0, <1>1, <2>1, <2>2 DEF EditorsAfter, AsciiAfter
  <1>4. CASE Focus
    <2>1. UNCHANGED <<viewMode, pageVars, columns>> /\ edit' \in left /\ left' = left \ {edit'}
      BY <1>4, Zenon DEF Focus
    <2> QED  BY <1>0, <1>1, <2>1 DEF EditorsAfter, AsciiAfter
  <1>5. CASE Type \/ (Enter /\ EnterRefuses)
    <2>1. UNCHANGED <<viewMode, pageVars, columns, left>> /\ Editing
      BY <1>5, Zenon DEF Type, Enter, EnterRefuses
    <2>2. edit' # NoEditor => InPlaceNext(edit') /\ edit'.lane = edit.lane
      BY <1>5, <2>1, RetypedEditor
    <2> QED  BY <1>0, <1>1, <2>1, <2>2 DEF EditorsAfter, AsciiAfter, Editing
  <1>6. CASE Enter /\ EnterCommits
    <2>1. UNCHANGED <<columns, plane>> /\ Editing
      BY <1>6, Zenon DEF Enter, fixed
    <2>2. /\ edit' # NoEditor => InPlaceNext(edit') /\ edit'.lane = edit.lane
          /\ \A e \in left' : InPlaceNext(e)
          /\ left' # {} => left # {}
      BY <1>6, <2>1, EntryAdvances
    <2> QED  BY <1>0, <2>1, <2>2 DEF EditorsAfter, AsciiAfter, Editing
  <1>7. CASE Escape
    <2>1. UNCHANGED <<viewMode, pageVars, columns, left>> /\ edit' = NoEditor
      BY <1>7, Zenon DEF Escape
    <2> QED  BY <1>0, <1>1, <2>1 DEF EditorsAfter, AsciiAfter
  <1>8. CASE Blur
    <2>1. UNCHANGED <<viewMode, pageVars, columns>> /\ edit' = NoEditor /\ Editing
      BY <1>8, Zenon DEF Blur
    <2> DEFINE k == [edit EXCEPT !.text = NoText]
    <2>2. left' = IF edit.lane = "ascii" /\ edit.text = NotAByte THEN left \cup {k} ELSE left
      BY <1>8, Zenon DEF Blur
    <2>3. InPlace(k)
      <3>1. Over(edit, viewMode, shown.start, windowRange.first, bytesPerRow)
        BY <1>0, <2>1 DEF InPlace, Editing
      <3>2. Over(k, viewMode, shown.start, windowRange.first, bytesPerRow)
        BY <3>1, Retyped
      <3> QED  BY <3>2 DEF InPlace
    <2> HIDE DEF k
    <2>4. \A e \in left' : InPlaceNext(e)
      BY <1>0, <1>1, <2>1, <2>2, <2>3
    <2> QED  BY <1>0, <2>1, <2>2, <2>4 DEF EditorsAfter, AsciiAfter, Editing
  <1>9. CASE Scroll
    <2>1. UNCHANGED <<viewMode, columns>> /\ left' = Kept
      BY <1>9, Zenon DEF Scroll
    <2>2. edit' # NoEditor => Editing /\ InPlaceNext(edit') /\ edit'.lane = edit.lane
      BY <1>9, ScrolledEditor
    <2> QED  BY <1>0, <1>2, <2>1, <2>2 DEF EditorsAfter, AsciiAfter, Editing
  <1>10. CASE PageNav \/ SetWatchAddr \/ SetPageSize \/ SetBytesPerRow
    <2>1. UNCHANGED <<viewMode, columns>> /\ left' = Kept /\ edit' = edit /\ ~Editing
      BY <1>10, Zenon DEF PageNav, SetWatchAddr, SetPageSize, SetBytesPerRow, Resized, Unfocused
    <2> QED  BY <1>0, <1>2, <2>1 DEF EditorsAfter, AsciiAfter, Editing
  <1>11. CASE SetIoViewMode
    <2>1. UNCHANGED columns /\ left' = {} /\ edit' = edit /\ ~Editing
      BY <1>11, Zenon DEF SetIoViewMode, Unfocused
    <2> QED  BY <1>0, <2>1 DEF EditorsAfter, AsciiAfter, Editing
  <1>12. CASE SetColumns
    <2>1. /\ UNCHANGED <<viewMode, pageVars>> /\ plane = "mem" /\ left' \subseteq left
          /\ edit' = edit /\ ~Editing
      <3>1. left' = {e \in left : e.lane \in columns'}
        BY <1>12, Zenon DEF SetColumns
      <3>2. UNCHANGED <<viewMode, pageVars>> /\ plane = "mem" /\ edit' = edit /\ ~Editing
        BY <1>12, Zenon DEF SetColumns, Unfocused
      <3> QED  BY <3>1, <3>2
    <2> QED  BY <1>0, <1>1, <2>1 DEF EditorsAfter, AsciiAfter, Editing
  <1>13. CASE Run \/ WriteFiles \/ CpuStep \/ Pause \/ UNCHANGED viewVars
    <2>1. UNCHANGED <<viewMode, pageVars, columns, left, edit>>
      BY <1>13, Zenon DEF Run, WriteFiles, CpuStep, Pause, Unfocused, editVars, viewVars
    <2> QED  BY <1>0, <1>1, <2>1 DEF EditorsAfter, AsciiAfter
  <1> QED  BY <1>3, <1>4, <1>5, <1>6, <1>7, <1>8, <1>9, <1>10, <1>11, <1>12, <1>13 DEF ViewNext, Enter

-----------------------------------------------------------------------------
(* The invariant. *)

LEMMA PlaneIsFixed ==
  ASSUME [ViewNext]_viewVars
  PROVE  UNCHANGED plane
  <1>1. ViewNext => UNCHANGED fixed
    BY Zenon DEF ViewNext, Click, Focus, Type, Enter, Escape, Blur, Scroll, PageNav, SetWatchAddr,
           SetPageSize, SetBytesPerRow, SetIoViewMode, SetColumns, Run, CpuStep, Pause, WriteFiles, Unfocused
  <1> QED  BY <1>1 DEF viewVars, fixed

LEMMA VInvNext ==
  ASSUME VInv, [ViewNext]_viewVars
  PROVE  VInv'
  <1>1. PageTypes'
    BY PageTypesKept DEF VInv
  <1>2. BusTypes'
    BY BusTypesKept
  <1>3. PageShown' /\ GridCurrent'
    BY GridKept
  <1>4. PreviewCurrent'
    BY PreviewKept
  <1>5. EditorsAfter /\ AsciiAfter
    BY <1>1, <1>3, EditorsKept
  <1>6. EditorsInPlace'
    BY <1>5, EditorsNext DEF EditorsAfter
  <1>7. AsciiOfMemory'
    BY <1>5, PlaneIsFixed DEF AsciiAfter, AsciiOfMemory, Editing
  <1> QED  BY <1>1, <1>2, <1>3, <1>4, <1>6, <1>7 DEF VInv

LEMMA VInvInit ==
  ASSUME ViewInit
  PROVE  VInv
  <1>1. PICK i \in Images :
          /\ planes = [mem |-> i.mem, rd |-> [a \in Addr |-> 0], wr |-> [a \in Addr |-> 0]]
          /\ pc = i.pc /\ plane \in i.grids
          /\ columns = IF plane = "mem" THEN i.columns ELSE {"hex"}
          /\ pageSize = i.pageSize /\ bytesPerRow = i.bytesPerRow
    BY DEF ViewInit
  <1>2. /\ status = "paused" /\ viewMode = "16bit"
        /\ watchAddr = 0 /\ viewPageBase = 0 /\ scrollTop = 0
        /\ IsRead /\ preview = previewLines(planes.mem, pc) /\ edit = NoEditor /\ left = {}
    BY DEF ViewInit, IsRead
  <1>3. pageSize \in PageSizes
    BY <1>1, ViewAssumption
  <1>4. bytesPerRow \in RowSizes
    BY <1>1, ViewAssumption
  <1>5. PageTypes
    <2>1. IsPage(0, pageSize)
      <3>1. 0 \in Addr
        BY PortsFit DEF Addr
      <3>2. 0 % pageSize = 0
        BY <1>3, ViewAssumption, ModSmall
      <3> QED  BY <1>3, <3>1, <3>2, AlignedIsPage
    <2>2. plane \in Planes
      BY <1>1, ViewAssumption DEF Planes
    <2> QED  BY <1>2, <1>3, <1>4, <2>1, <2>2 DEF PageTypes, IsPage
  <1>6. BusTypes
    <2>1. i.mem \in [Addr -> Byte] /\ i.pc \in Addr
      BY ViewAssumption
    <2>2. [a \in Addr |-> 0] \in [Addr -> Byte]
      BY DEF Byte
    <2> DEFINE m == i.mem
               zero == [a \in Addr |-> 0]
    <2>3. planes = [mem |-> m, rd |-> zero, wr |-> zero]
      BY <1>1
    <2> HIDE DEF m, zero
    <2>4. planes \in [mem : [Addr -> Byte], rd : [Addr -> Byte], wr : [Addr -> Byte]]
      BY <2>1, <2>2, <2>3 DEF m, zero
    <2> QED  BY <1>1, <2>1, <2>4 DEF BusTypes
  <1>7. PageShown
    BY <1>2, <1>5, ReadPageShape
  <1>8. GridCurrent /\ PreviewCurrent
    BY <1>2 DEF GridCurrent, PreviewCurrent, IsRead
  <1>9. EditorsInPlace /\ AsciiOfMemory
    BY <1>1, <1>2 DEF EditorsInPlace, AsciiOfMemory, Editing
  <1> QED  BY <1>5, <1>6, <1>7, <1>8, <1>9 DEF VInv

(* Every gesture, and every step of the CPU, leaves the page, the grid, the *)
(* preview and the open editors as VInv says.                              *)
THEOREM ViewsInvariant == ViewSpec => []VInv
  <1>1. ViewInit => VInv
    BY VInvInit
  <1>2. VInv /\ [ViewNext]_viewVars => VInv'
    BY VInvNext
  <1> QED  BY <1>1, <1>2, PTL DEF ViewSpec

(* ViewsShowMemory: the grid and the preview of a paused page are what the *)
(* arrays hold now, whichever of the ways to write them was used since.    *)
THEOREM PausedViewsShowMemory == ViewSpec => []ViewsShowMemory
  <1>1. VInv => ViewsShowMemory
    <2> SUFFICES ASSUME VInv, status = "paused" PROVE ViewsShowMemory
      BY DEF ViewsShowMemory
    <2>1. IsRead /\ preview = previewLines(planes.mem, pc) /\ PageTypes
      BY DEF VInv, GridCurrent, PreviewCurrent, IsRead
    <2>2. viewMode \in {"16bit", "8bit"} /\ pageBase(viewPageBase, pageSize) = viewPageBase
          /\ pageSize \in PageSizes
      BY <2>1 DEF PageTypes
    <2> DEFINE bytes == planes[plane]
    <2>3. CASE viewMode = "8bit"
      <3>1. shown = [start |-> 0, buf |-> [i \in 0 .. Ports - 1 |-> bytes[i]],
                     mismatch |-> {p \in 0 .. Ports - 1 : \E a \in Aliases(p) : bytes[a] # bytes[p]}]
        BY <2>1, <2>3 DEF IsRead, PageData
      <3> HIDE DEF bytes
      <3>2. \A i \in DOMAIN shown.buf : shown.buf[i] = bytes[shown.start + i]
        BY <3>1
      <3>3. \A p \in 0 .. Ports - 1 :
              p \in shown.mismatch => \E a \in Aliases(p) : bytes[a] # bytes[p]
        BY <3>1, Zenon
      <3>4. \A p \in (0 .. Ports - 1) \ shown.mismatch :
              \A a \in Aliases(p) : bytes[a] = shown.buf[p]
        BY <3>1, Zenon
      <3> QED  BY <2>1, <2>3, <3>2, <3>3, <3>4 DEF ViewsShowMemory, bytes
    <2>4. CASE viewMode = "16bit"
      <3>1. shown = [start |-> viewPageBase,
                     buf |-> [i \in 0 .. pageSize - 1 |-> bytes[(viewPageBase + i) % Size]],
                     mismatch |-> {}]
        BY <2>1, <2>2, <2>4 DEF IsRead, PageData
      <3>2. viewPageBase \in Nat /\ viewPageBase + pageSize <= Size /\ pageSize \in Nat
        <4>1. IsPage(viewPageBase, pageSize)
          BY <2>1 DEF PageTypes, IsPage
        <4>2. viewPageBase \in Addr /\ viewPageBase + pageSize <= Size
          BY <2>2, <4>1, PageIsAligned
        <4> QED  BY <2>2, <4>2, ViewAssumption DEF Addr
      <3> HIDE DEF bytes
      <3>3. ASSUME NEW i \in DOMAIN shown.buf PROVE shown.buf[i] = bytes[shown.start + i]
        <4>1. i \in 0 .. pageSize - 1
          BY <3>1
        <4>2. viewPageBase + i \in 0 .. Size - 1
          BY <3>2, <4>1, PortsFit
        <4>3. (viewPageBase + i) % Size = viewPageBase + i
          BY <4>2, PortsFit, ModSmall
        <4>4. shown.buf[i] = bytes[(viewPageBase + i) % Size] /\ shown.start = viewPageBase
          BY <3>1, <4>1
        <4> QED  BY <4>3, <4>4
      <3>4. shown.mismatch = {} /\ viewPageBase = shown.start
        BY <3>1
      <3> QED  BY <2>1, <2>4, <3>3, <3>4 DEF ViewsShowMemory, bytes
    <2> QED  BY <2>2, <2>3, <2>4
  <1> QED  BY <1>1, ViewsInvariant, PTL

(* EditsLandWhereOpened: whichever key, click or scroll ends an editor,    *)
(* its byte goes to the cell it was opened at or, when the rows moved      *)
(* under it, to the cell it is shown over; and no other byte changes.      *)
THEOREM BytesLandWhereOpened == ViewSpec => EditsLandWhereOpened
  <1> DEFINE target == IF edit.moved THEN CellAddr(edit.row, edit.col) ELSE edit.opened
             A == Editing /\ planes' # planes =>
                    \/ status = "running" /\ UNCHANGED edit
                    \/ /\ status = "paused" /\ edit.text \in Byte
                       /\ planes' = Wrote(target, edit.text)
  <1>1. VInv /\ [ViewNext]_viewVars => [A]_viewVars
    <2> SUFFICES ASSUME VInv, ViewNext, Editing, planes' # planes
                 PROVE  \/ status = "running" /\ UNCHANGED edit
                        \/ /\ status = "paused" /\ edit.text \in Byte
                           /\ planes' = Wrote(target, edit.text)
      OBVIOUS
    <2>1. target = Here
      BY HereIsPlace, Zenon DEF Here
    <2>2. CASE Enter \/ Blur \/ Scroll
      <3>1. Commit(Here)
        BY <2>2, Zenon DEF Enter, EnterCommits, EnterRefuses, CommitThenAdvance, Blur, Scroll, busVars, Here
      <3>2. status = "paused" /\ edit.text \in Byte /\ planes' = Wrote(Here, edit.text)
        BY <3>1, Zenon DEF Commit
      <3> HIDE DEF target
      <3> QED  BY <2>1, <3>2, Zenon
    <2>3. CASE CpuStep
      BY <2>3, Zenon DEF CpuStep, editVars
    <2>4. ~(Click \/ Focus \/ Type \/ Escape \/ Pause)
      BY Zenon DEF Click, Focus, Type, Escape, Pause, busVars
    <2>5. ~Unfocused
      BY DEF Unfocused
    <2>6. ~(PageNav \/ SetWatchAddr \/ SetPageSize \/ SetBytesPerRow \/ SetIoViewMode \/ SetColumns
             \/ Run \/ WriteFiles)
      BY <2>5, Zenon DEF PageNav, SetWatchAddr, SetPageSize, SetBytesPerRow, SetIoViewMode, SetColumns,
             Run, WriteFiles
    <2> QED  BY <2>2, <2>3, <2>4, <2>6 DEF ViewNext
  <1> QED  BY <1>1, ViewsInvariant, PTL DEF ViewSpec, EditsLandWhereOpened

(* RapidEntryIsSequential: an editor is followed by one at the next        *)
(* address, and a page turns under an editor only to put one on its first  *)
(* cell, which is mounted whatever the viewport.                           *)
THEOREM EntryIsSequential == ViewSpec => RapidEntryIsSequential
  <1> DEFINE A == Editing =>
       LET a == CellAddr(edit.row, edit.col) IN
       /\ edit' # NoEditor /\ edit'.opened \notin {edit.opened, a} =>
            edit'.opened = (a + 1) % space
       /\ watchAddr' # watchAddr =>
            /\ watchAddr' = (a + 1) % Size /\ shown'.start = watchAddr'
            /\ status = "paused" =>
                 \E e \in left' \cup ({edit'} \ {NoEditor}) : e.opened = watchAddr'
  <1>1. VInv /\ [ViewNext]_viewVars => [A]_viewVars
    <2> SUFFICES ASSUME VInv, ViewNext, Editing
                 PROVE  /\ edit' # NoEditor /\ edit'.opened \notin {edit.opened, Here} =>
                             edit'.opened = There
                        /\ watchAddr' # watchAddr =>
                             /\ watchAddr' = (Here + 1) % Size /\ shown'.start = watchAddr'
                             /\ status = "paused" =>
                                  \E e \in left' \cup ({edit'} \ {NoEditor}) : e.opened = watchAddr'
      BY Zenon DEF Here, There
    <2>0. PageTypes
      BY DEF VInv
    <2>1. PageTypes' /\ PageShown'
      BY <2>0, PageTypesKept, GridKept
    <2>2. CASE /\ watchAddr' = watchAddr
               /\ edit' = NoEditor \/ edit'.opened = edit.opened \/ edit'.opened = Here
      BY <2>2
    <2>3. CASE Click
      <3>1. edit'.opened = Here /\ watchAddr' = watchAddr
        BY <2>1, <2>3, ClickedCell DEF Click, pageVars
      <3> QED  BY <2>2, <3>1
    <2>4. CASE Type
      <3>1. edit' = NoEditor \/ edit'.opened = edit.opened
        BY <2>1, <2>4, RetypedEditor
      <3>2. watchAddr' = watchAddr
        BY <2>4 DEF Type, pageVars
      <3> QED  BY <2>2, <3>1, <3>2
    <2>5. CASE Enter
      <3>1. CASE EnterRefuses
        <4>1. edit' = NoEditor \/ edit'.opened = edit.opened
          BY <2>1, <2>5, <3>1, RetypedEditor
        <4>2. watchAddr' = watchAddr
          BY <3>1 DEF EnterRefuses, pageVars
        <4> QED  BY <2>2, <4>1, <4>2
      <3>2. CASE EnterCommits
        <4>1. edit' # NoEditor => edit'.opened = There
          BY <2>1, <3>2, EntryAdvances
        <4>2. advance(Here) /\ viewMode' = viewMode
          BY <3>2, EnterClicks
        <4>3. CASE OnLastCell(Here)
          <5>1. status = "paused" => \E e \in left' \cup ({edit'} \ {NoEditor}) : e.opened = There
            BY <2>1, <3>2, <4>3, TurnedPageIsEdited
          <5>2. watchAddr' = (Here + 1) % Size /\ viewPageBase' = watchAddr'
            BY <2>0, <4>2, <4>3, AdvanceTurnsPage
          <5>3. viewMode = "16bit"
            BY <4>3 DEF OnLastCell
          <5>4. There = (Here + 1) % Size
            BY <5>3 DEF There, space
          <5>5. shown'.start = viewPageBase'
            BY <2>1, <4>2, <5>3 DEF PageShown
          <5> QED  BY <4>1, <5>1, <5>2, <5>4, <5>5
        <4>4. CASE ~OnLastCell(Here)
          <5>1. watchAddr' = watchAddr
            BY <4>2, <4>4, AdvanceStays
          <5> QED  BY <4>1, <5>1
        <4> QED  BY <4>3, <4>4
      <3> QED  BY <2>5, <3>1, <3>2 DEF Enter
    <2>6. CASE Escape \/ Blur
      <3>1. edit' = NoEditor /\ watchAddr' = watchAddr
        BY <2>6 DEF Escape, Blur, pageVars
      <3> QED  BY <2>2, <3>1
    <2>7. CASE Scroll
      <3>1. watchAddr' = watchAddr
        BY <2>7, Zenon DEF Scroll
      <3>2. edit' = NoEditor \/ edit'.opened = edit.opened
        BY <2>1, <2>7, ScrolledEditor
      <3> QED  BY <2>2, <3>1, <3>2
    <2>8. CASE CpuStep \/ Pause
      <3>1. UNCHANGED <<edit, watchAddr>>
        BY <2>8, Zenon DEF CpuStep, Pause, editVars, pageVars
      <3> QED  BY <2>2, <3>1
    <2>9. ~Unfocused /\ ~Focus
      BY DEF Unfocused, Focus
    <2>10. ~(PageNav \/ SetWatchAddr \/ SetPageSize \/ SetBytesPerRow \/ SetIoViewMode \/ SetColumns
             \/ Run \/ WriteFiles)
      BY <2>9, Zenon DEF PageNav, SetWatchAddr, SetPageSize, SetBytesPerRow, SetIoViewMode, SetColumns,
             Run, WriteFiles
    <2> QED  BY <2>3, <2>4, <2>5, <2>6, <2>7, <2>8, <2>9, <2>10 DEF ViewNext
  <1> QED  BY <1>1, ViewsInvariant, PTL DEF ViewSpec, RapidEntryIsSequential

-----------------------------------------------------------------------------
(* The table of the disassembler and the encoding of the CPU. *)

LEMMA Fields ==
  ASSUME NEW op \in 0 .. 255
  PROVE  /\ X(op) \in 0 .. 3 /\ Y(op) \in 0 .. 7 /\ Z(op) \in 0 .. 7
         /\ op = 64 * X(op) + 8 * Y(op) + Z(op)
  BY DEF X, Y, Z

LEMMA Halves ==
  ASSUME NEW op \in 0 .. 255
  PROVE  P(op) \in 0 .. 3 /\ Q(op) \in 0 .. 1 /\ Y(op) = 2 * P(op) + Q(op)
  BY Fields DEF P, Q

LEMMA LoadEncoding ==
  ASSUME NEW op \in 0 .. 255, NEW idx, X(op) = 1
  PROVE  /\ LoadForm(op, idx).operand = "-" /\ PlainLength(op) = 1
         /\ LoadForm(op, idx).disp <=> idx # "none" /\ op \in Indexed
  <1>1. PlainLength(op) = 1
    BY Fields DEF PlainLength, ByteOperand, WordOperand
  <1>2. op \in Indexed <=> op # 118 /\ (Y(op) = 6 \/ Z(op) = 6)
    BY Fields DEF Indexed
  <1>3. LoadForm(op, idx).operand = "-"
    BY DEF LoadForm, Form
  <1>4. LoadForm(op, idx).disp <=> idx # "none" /\ op # 118 /\ 6 \in {Y(op), Z(op)}
    BY DEF LoadForm, Form
  <1> QED  BY <1>1, <1>2, <1>3, <1>4

LEMMA AluEncoding ==
  ASSUME NEW op \in 0 .. 255, NEW idx, X(op) = 2
  PROVE  /\ AluForm(op, idx).operand = "-" /\ PlainLength(op) = 1
         /\ AluForm(op, idx).disp <=> idx # "none" /\ op \in Indexed
  <1>1. PlainLength(op) = 1
    BY Fields DEF PlainLength, ByteOperand, WordOperand
  <1>2. op \in Indexed <=> Z(op) = 6
    BY Fields DEF Indexed
  <1> QED  BY <1>1, <1>2 DEF AluForm, Form

LEMMA WordEncoding ==
  ASSUME NEW op \in 0 .. 255, NEW idx, X(op) = 0, Z(op) < 4
  PROVE  /\ PlainLength(op) = 1 + Bytes(WordForm(op, idx).operand)
         /\ ~WordForm(op, idx).disp /\ op \notin Indexed
  <1>0. op = 8 * Y(op) + Z(op) /\ Y(op) \in 0 .. 7 /\ Z(op) \in 0 .. 3
        /\ P(op) \in 0 .. 3 /\ Q(op) \in 0 .. 1 /\ Y(op) = 2 * P(op) + Q(op)
    BY Fields, Halves
  <1>1. op \notin Indexed
    BY <1>0 DEF Indexed
  <1>2. CASE Z(op) = 0
    <2>1. WordForm(op, idx).operand = (IF Y(op) < 2 THEN "-" ELSE "e") /\ ~WordForm(op, idx).disp
      BY <1>0, <1>2 DEF WordForm, Form
    <2>2. PlainLength(op) = IF Y(op) < 2 THEN 1 ELSE 2
      BY <1>0, <1>2 DEF PlainLength, ByteOperand, WordOperand
    <2> QED  BY <1>1, <2>1, <2>2 DEF Bytes
  <1>3. CASE Z(op) = 1
    <2>1. WordForm(op, idx).operand = (IF Q(op) = 0 THEN "nn" ELSE "-") /\ ~WordForm(op, idx).disp
      BY <1>0, <1>3 DEF WordForm, Form
    <2>2. PlainLength(op) = IF Q(op) = 0 THEN 3 ELSE 1
      BY <1>0, <1>3 DEF PlainLength, ByteOperand, WordOperand
    <2> QED  BY <1>1, <2>1, <2>2 DEF Bytes
  <1>4. CASE Z(op) = 2
    <2>1. WordForm(op, idx).operand = (IF P(op) < 2 THEN "-" ELSE "nn") /\ ~WordForm(op, idx).disp
      BY <1>0, <1>4 DEF WordForm, Form
    <2>2. PlainLength(op) = IF P(op) < 2 THEN 1 ELSE 3
      BY <1>0, <1>4 DEF PlainLength, ByteOperand, WordOperand
    <2> QED  BY <1>1, <2>1, <2>2 DEF Bytes
  <1>5. CASE Z(op) = 3
    <2>1. WordForm(op, idx).operand = "-" /\ ~WordForm(op, idx).disp
      BY <1>0, <1>5 DEF WordForm, Form
    <2>2. PlainLength(op) = 1
      BY <1>0, <1>5 DEF PlainLength, ByteOperand, WordOperand
    <2> QED  BY <1>1, <2>1, <2>2 DEF Bytes
  <1> QED  BY <1>0, <1>2, <1>3, <1>4, <1>5

LEMMA ByteEncoding ==
  ASSUME NEW op \in 0 .. 255, NEW idx, X(op) = 0, Z(op) >= 4
  PROVE  /\ PlainLength(op) = 1 + Bytes(ByteForm(op, idx).operand)
         /\ ByteForm(op, idx).disp <=> idx # "none" /\ op \in Indexed
  <1>0. op = 8 * Y(op) + Z(op) /\ Y(op) \in 0 .. 7 /\ Z(op) \in 4 .. 7
    BY Fields
  <1>1. op \in Indexed <=> Y(op) = 6 /\ Z(op) # 7
    BY <1>0 DEF Indexed
  <1>2. CASE Z(op) \in {4, 5}
    <2>1. ByteForm(op, idx).operand = "-" /\ (ByteForm(op, idx).disp <=> idx # "none" /\ Y(op) = 6)
      <3> DEFINE slot  == idx # "none" /\ Y(op) = 6
                 names == {rSub(Y(op), idx, FALSE)}
      <3>1. ByteForm(op, idx) = Form(slot, "-", names, slot)
        <4>1. CASE Z(op) = 4
          BY <4>1 DEF ByteForm
        <4>2. CASE Z(op) = 5
          BY <4>2 DEF ByteForm
        <4> QED  BY <1>2, <4>1, <4>2
      <3> HIDE DEF slot, names
      <3>2. ByteForm(op, idx).operand = "-" /\ ByteForm(op, idx).disp = slot
        BY <3>1 DEF Form
      <3> QED  BY <3>2 DEF slot
    <2>2. PlainLength(op) = 1
      BY <1>0, <1>2 DEF PlainLength, ByteOperand, WordOperand
    <2> QED  BY <1>1, <1>2, <2>1, <2>2 DEF Bytes
  <1>3. CASE Z(op) = 6
    <2>1. ByteForm(op, idx).operand = "n" /\ (ByteForm(op, idx).disp <=> idx # "none" /\ Y(op) = 6)
      <3> DEFINE slot  == idx # "none" /\ Y(op) = 6
                 names == {rSub(Y(op), idx, FALSE)}
      <3>1. ByteForm(op, idx) = Form(slot, "n", names, slot)
        BY <1>0, <1>3 DEF ByteForm
      <3> HIDE DEF slot, names
      <3>2. ByteForm(op, idx).operand = "n" /\ ByteForm(op, idx).disp = slot
        BY <3>1 DEF Form
      <3> QED  BY <3>2 DEF slot
    <2>2. PlainLength(op) = 2
      BY <1>0, <1>3 DEF PlainLength, ByteOperand, WordOperand
    <2> QED  BY <1>1, <1>3, <2>1, <2>2 DEF Bytes
  <1>4. CASE Z(op) = 7
    <2>1. ByteForm(op, idx).operand = "-" /\ ~ByteForm(op, idx).disp
      BY <1>0, <1>4 DEF ByteForm, Form
    <2>2. PlainLength(op) = 1
      BY <1>0, <1>4 DEF PlainLength, ByteOperand, WordOperand
    <2> QED  BY <1>1, <1>4, <2>1, <2>2 DEF Bytes
  <1> QED  BY <1>0, <1>2, <1>3, <1>4

LEMMA ControlEncoding ==
  ASSUME NEW op \in 0 .. 255, NEW idx, X(op) = 3
  PROVE  /\ PlainLength(op) = 1 + Bytes(ControlForm(op, idx).operand)
         /\ ~ControlForm(op, idx).disp /\ op \notin Indexed
  <1>0. op = 192 + 8 * Y(op) + Z(op) /\ Y(op) \in 0 .. 7 /\ Z(op) \in 0 .. 7
        /\ P(op) \in 0 .. 3 /\ Q(op) \in 0 .. 1 /\ Y(op) = 2 * P(op) + Q(op)
    BY Fields, Halves
  <1>1. op \notin Indexed
    BY <1>0 DEF Indexed
  <1> DEFINE word == Z(op) \in {2, 4} \/ op \in {195, 205}
             byte == Z(op) = 6 \/ (Z(op) = 3 /\ Y(op) \in {2, 3})
  <1>2. CASE word
    <2>1. ControlForm(op, idx).operand = "nn" /\ ~ControlForm(op, idx).disp
      BY <1>0, <1>2 DEF ControlForm, Form
    <2>2. PlainLength(op) = 3
      BY <1>0, <1>2 DEF PlainLength, ByteOperand, WordOperand
    <2> QED  BY <1>1, <2>1, <2>2 DEF Bytes
  <1>3. CASE byte
    <2>1. ControlForm(op, idx).operand = "n" /\ ~ControlForm(op, idx).disp
      BY <1>0, <1>3 DEF ControlForm, Form
    <2>2. PlainLength(op) = 2
      BY <1>0, <1>3 DEF PlainLength, ByteOperand, WordOperand
    <2> QED  BY <1>1, <2>1, <2>2 DEF Bytes
  <1>4. CASE ~word /\ ~byte
    <2>1. ControlForm(op, idx).operand = "-" /\ ~ControlForm(op, idx).disp
      BY <1>0, <1>4 DEF ControlForm, Form
    <2>2. PlainLength(op) = 1
      BY <1>0, <1>4 DEF PlainLength, ByteOperand, WordOperand
    <2> QED  BY <1>1, <2>1, <2>2 DEF Bytes
  <1> QED  BY <1>2, <1>3, <1>4

(* The disassembler reads after an opcode what the CPU fetches after it.   *)
LEMMA MainEncoding ==
  ASSUME NEW op \in 0 .. 255, NEW idx
  PROVE  /\ PlainLength(op) = 1 + Bytes(MainForm(op, idx).operand)
         /\ MainForm(op, idx).disp <=> idx # "none" /\ op \in Indexed
  <1>0. X(op) \in 0 .. 3 /\ Z(op) \in 0 .. 7
    BY Fields
  <1>1. CASE X(op) = 1
    <2>1. MainForm(op, idx) = LoadForm(op, idx)
      BY <1>1 DEF MainForm
    <2> QED  BY <1>1, <2>1, LoadEncoding DEF Bytes
  <1>2. CASE X(op) = 2
    <2>1. MainForm(op, idx) = AluForm(op, idx)
      BY <1>2 DEF MainForm
    <2> QED  BY <1>2, <2>1, AluEncoding DEF Bytes
  <1>3. CASE X(op) = 0 /\ Z(op) < 4
    <2>1. MainForm(op, idx) = WordForm(op, idx)
      BY <1>0, <1>3 DEF MainForm
    <2> QED  BY <1>3, <2>1, WordEncoding
  <1>4. CASE X(op) = 0 /\ Z(op) >= 4
    <2>1. MainForm(op, idx) = ByteForm(op, idx)
      BY <1>0, <1>4 DEF MainForm
    <2> QED  BY <1>4, <2>1, ByteEncoding
  <1>5. CASE X(op) = 3
    <2>1. MainForm(op, idx) = ControlForm(op, idx)
      BY <1>5 DEF MainForm
    <2> QED  BY <1>5, <2>1, ControlEncoding
  <1> QED  BY <1>0, <1>1, <1>2, <1>3, <1>4, <1>5

LEMMA ExtendedEncoding ==
  ASSUME NEW op \in 0 .. 255
  PROVE  op \in ExtendedWord <=> X(op) = 1 /\ Z(op) = 3
  BY Fields DEF ExtendedWord

-----------------------------------------------------------------------------
(* The reading of a window whose first opcode is at a known place. *)

Leads(w, at) ==
  /\ at \in 1 .. Len(w) /\ w[at] \notin Prefix
  /\ \A i \in 1 .. at - 1 : w[i] \in Prefix

IndexOf(w, at) == IF at = 1 THEN "none" ELSE IF w[at - 1] = 221 THEN "IX" ELSE "IY"

Decoded(w, at) ==
  CASE w[at] = 237 -> decodeED(w, at)
    [] w[at] = 203 -> decodeCB(w, at, IndexOf(w, at))
    [] OTHER       -> decodeMain(w, at, IndexOf(w, at))

Wasted(w, at) == at > 2 \/ (at > 1 /\ w[at] = 237)

LEMMA Disassembled ==
  ASSUME NEW w \in Seq(Byte), NEW at, Leads(w, at)
  PROVE  disasm(w) = [Decoded(w, at) EXCEPT !.undocumented = Decoded(w, at).undocumented \/ Wasted(w, at)]
  <1> DEFINE opcodes == {i \in DOMAIN w : w[i] \notin {221, 253}}
  <1>1. at \in opcodes /\ (\A i \in opcodes : at <= i) /\ opcodes \subseteq Nat
    <2>1. DOMAIN w = 1 .. Len(w) /\ Len(w) \in Nat
      OBVIOUS
    <2>2. ASSUME NEW i \in opcodes PROVE at <= i
      <3>1. i \in 1 .. Len(w) /\ w[i] \notin Prefix
        BY <2>1 DEF Prefix
      <3> QED  BY <2>1, <3>1 DEF Leads
    <2> QED  BY <2>1, <2>2 DEF Leads, Prefix
  <1>2. Min(opcodes) = at
    <2> HIDE DEF opcodes
    <2>1. \E x \in opcodes : \A y \in opcodes : x <= y
      BY <1>1
    <2> DEFINE m == CHOOSE x \in opcodes : \A y \in opcodes : x <= y
    <2>2. m \in opcodes /\ \A y \in opcodes : m <= y
      BY <2>1
    <2> HIDE DEF m
    <2>3. m = at
      BY <1>1, <2>2
    <2> QED  BY <2>3 DEF Min, m
  <1>3. opcodes # {}
    BY <1>1
  <1> DEFINE Result(a) ==
        LET idx    == IF a = 1 THEN "none" ELSE IF w[a - 1] = 221 THEN "IX" ELSE "IY"
            wasted == a > 2 \/ (a > 1 /\ w[a] = 237)
            r      == CASE w[a] = 237 -> decodeED(w, a)
                       [] w[a] = 203 -> decodeCB(w, a, idx)
                       [] OTHER      -> decodeMain(w, a, idx)
        IN  [r EXCEPT !.undocumented = r.undocumented \/ wasted]
  <1>4. disasm(w) = IF opcodes = {} THEN [Nothing EXCEPT !.length = Len(w)] ELSE Result(Min(opcodes))
    BY DEF disasm
  <1>5. disasm(w) = Result(at)
    <2> HIDE DEF Result, opcodes
    <2> QED  BY <1>2, <1>3, <1>4
  <1> QED  BY <1>5 DEF Decoded, Wasted, IndexOf

ReadingFields == {"length", "names", "rel", "abs", "indexD", "incomplete", "undocumented"}

(* What a reading says, field by field. *)
ReadingSays(r, length, names, rel, abs, indexD, undocumented) ==
  /\ DOMAIN r = ReadingFields
  /\ r.length = length /\ r.names = names
  /\ r.rel = rel /\ r.abs = abs /\ r.indexD = indexD
  /\ r.undocumented = undocumented

LEMMA NothingSays == ReadingSays(Nothing, 0, {}, {}, {}, {}, FALSE)
  BY DEF Nothing, ReadingSays, ReadingFields

LEMMA Corrected ==
  ASSUME NEW r, NEW l, NEW n, NEW e, NEW a, NEW d, NEW u, ReadingSays(r, l, n, e, a, d, u), NEW v
  PROVE  /\ ReadingSays([r EXCEPT !.length = v], v, n, e, a, d, u)
         /\ ReadingSays([r EXCEPT !.names = v], l, v, e, a, d, u)
         /\ ReadingSays([r EXCEPT !.indexD = v], l, n, e, a, v, u)
         /\ ReadingSays([r EXCEPT !.incomplete = v], l, n, e, a, d, u)
         /\ ReadingSays([r EXCEPT !.undocumented = v], l, n, e, a, d, v)
  BY DEF ReadingSays, ReadingFields

LEMMA BlankSays ==
  ASSUME NEW l, NEW b
  PROVE  ReadingSays([Nothing EXCEPT !.length = l, !.incomplete = b], l, {}, {}, {}, {}, FALSE)
  <1> DEFINE r1 == [Nothing EXCEPT !.length = l]
  <1>1. ReadingSays(r1, l, {}, {}, {}, {}, FALSE)
    BY NothingSays, Corrected
  <1> HIDE DEF r1
  <1>2. ReadingSays([r1 EXCEPT !.incomplete = b], l, {}, {}, {}, {}, FALSE)
    BY <1>1, Corrected
  <1> QED  BY <1>2 DEF r1

LEMMA BitSays ==
  ASSUME NEW l, NEW n, NEW d, NEW u
  PROVE  ReadingSays([Nothing EXCEPT !.length = l, !.names = n, !.indexD = d, !.undocumented = u],
              l, n, {}, {}, d, u)
  <1> DEFINE r1 == [Nothing EXCEPT !.length = l]
             r2 == [r1 EXCEPT !.names = n]
             r3 == [r2 EXCEPT !.indexD = d]
             r4 == [r3 EXCEPT !.undocumented = u]
  <1>1. ReadingSays(r1, l, {}, {}, {}, {}, FALSE)
    BY NothingSays, Corrected
  <1> HIDE DEF r1
  <1>2. ReadingSays(r2, l, n, {}, {}, {}, FALSE)
    BY <1>1, Corrected
  <1> HIDE DEF r2
  <1>3. ReadingSays(r3, l, n, {}, {}, d, FALSE)
    BY <1>2, Corrected
  <1> HIDE DEF r3
  <1>4. ReadingSays(r4, l, n, {}, {}, d, u)
    BY <1>3, Corrected
  <1> QED  BY <1>4 DEF r1, r2, r3

(* Where an instruction ends, whether the window reaches there or not. *)
FormEnd(at, form) == at + (IF form.disp THEN 2 ELSE 1) + Bytes(form.operand) - 1

EndOf(w, at) ==
  CASE w[at] = 237 -> at + (IF w[at + 1] \in ExtendedWord THEN 3 ELSE 1)
    [] w[at] = 203 -> at + (IF at > 1 THEN 2 ELSE 1)
    [] OTHER       -> at + PlainLength(w[at]) - 1 + (IF at > 1 /\ w[at] \in Indexed THEN 1 ELSE 0)

LEMMA ReadLength ==
  ASSUME NEW w, NEW at, NEW form, NEW u
  PROVE  /\ DOMAIN Read(w, at, form, u) = ReadingFields
         /\ Read(w, at, form, u).length
              = IF FormEnd(at, form) <= Len(w) THEN FormEnd(at, form) ELSE Len(w)
  BY DEF Read, ReadingFields, FormEnd

LEMMA IndexOfNone ==
  ASSUME NEW w, NEW at \in Nat \ {0}
  PROVE  IndexOf(w, at) \in Idx /\ (IndexOf(w, at) # "none" <=> at > 1)
  BY DEF IndexOf, Idx

LEMMA DecodedLength ==
  ASSUME NEW w \in Seq(Byte), NEW at, Leads(w, at)
  PROVE  /\ DOMAIN Decoded(w, at) = ReadingFields
         /\ Decoded(w, at).length =
              IF (at < Len(w) \/ w[at] # 237) /\ EndOf(w, at) <= Len(w) THEN EndOf(w, at) ELSE Len(w)
  <1>0. /\ at \in 1 .. Len(w) /\ at \in Nat \ {0} /\ Len(w) \in Nat /\ w[at] \in Byte
        /\ w[at] \notin Prefix
    <2>1. Len(w) \in Nat /\ at \in 1 .. Len(w) /\ w[at] \notin Prefix
      BY DEF Leads
    <2> QED  BY <2>1
  <1> DEFINE idx == IndexOf(w, at)
  <1>1. idx # "none" <=> at > 1
    BY <1>0, IndexOfNone
  <1>2. CASE w[at] = 237
    <2>1. Decoded(w, at) = decodeED(w, at)
      BY <1>2 DEF Decoded
    <2>2. CASE at = Len(w)
      <3> DEFINE r == [Nothing EXCEPT !.length = Len(w), !.incomplete = TRUE]
      <3>1. Decoded(w, at) = r
        BY <2>1, <2>2 DEF decodeED
      <3>2. ReadingSays(r, Len(w), {}, {}, {}, {}, FALSE)
        BY BlankSays
      <3> HIDE DEF r
      <3> QED  BY <1>2, <2>2, <3>1, <3>2 DEF ReadingSays
    <2>3. CASE at # Len(w)
      <3>1. at + 1 \in 1 .. Len(w) /\ w[at + 1] \in Byte
        BY <1>0, <2>3
      <3> DEFINE op == w[at + 1]
                 names == CASE X(op) = 1 /\ Z(op) < 2 -> IF Y(op) = 6 THEN {} ELSE {rTable[Y(op) + 1]}
                            [] X(op) = 1 /\ Z(op) = 2 -> {"HL", rpTable[P(op) + 1]}
                            [] X(op) = 1 /\ Z(op) = 3 -> {rpTable[P(op) + 1]}
                            [] OTHER                  -> {}
                 operand == IF X(op) = 1 /\ Z(op) = 3 THEN "nn" ELSE "-"
                 form == Form(FALSE, operand, names, FALSE)
      <3>2. Decoded(w, at) = Read(w, at + 1, form, ~EDDocumented(op))
        BY <2>1, <2>3 DEF decodeED
      <3>3. ~form.disp /\ form.operand = operand
        <4> HIDE DEF operand, names
        <4> QED  BY DEF Form
      <3>4. operand = IF op \in ExtendedWord THEN "nn" ELSE "-"
        BY <3>1, ExtendedEncoding DEF Byte
      <3> HIDE DEF form, operand
      <3>5. FormEnd(at + 1, form) = EndOf(w, at)
        <4>1. EndOf(w, at) = at + (IF op \in ExtendedWord THEN 3 ELSE 1)
          BY <1>2 DEF EndOf
        <4>2. FormEnd(at + 1, form) = at + 1 + 1 + Bytes(operand) - 1
          BY <3>3 DEF FormEnd
        <4>3. Bytes(operand) = IF op \in ExtendedWord THEN 2 ELSE 0
          BY <3>4 DEF Bytes
        <4> HIDE DEF op
        <4> QED  BY <1>0, <4>1, <4>2, <4>3
      <3> DEFINE u == ~EDDocumented(op)
                 a == at + 1
      <3>6. /\ DOMAIN Read(w, a, form, u) = ReadingFields
            /\ Read(w, a, form, u).length
                 = IF FormEnd(a, form) <= Len(w) THEN FormEnd(a, form) ELSE Len(w)
        <4> HIDE DEF u, a
        <4> QED  BY ReadLength
      <3>7. at < Len(w)
        BY <1>0, <2>3
      <3> HIDE DEF u
      <3> QED  BY <3>2, <3>5, <3>6, <3>7 DEF u
    <2> QED  BY <2>2, <2>3
  <1>3. CASE w[at] = 203
    <2> DEFINE slot == idx # "none"
               o == at + (IF slot THEN 2 ELSE 1)
    <2>1. Decoded(w, at) = decodeCB(w, at, idx)
      BY <1>3 DEF Decoded
    <2>2. EndOf(w, at) = o
      BY <1>1, <1>3 DEF EndOf
    <2>3. CASE o > Len(w)
      <3> DEFINE r == [Nothing EXCEPT !.length = Len(w), !.incomplete = TRUE]
      <3>1. Decoded(w, at) = r
        BY <2>1, <2>3 DEF decodeCB
      <3>2. ReadingSays(r, Len(w), {}, {}, {}, {}, FALSE)
        BY BlankSays
      <3>3. ~(EndOf(w, at) <= Len(w))
        <4>1. o \in Nat
          BY <1>0
        <4> HIDE DEF o
        <4> QED  BY <1>0, <2>2, <2>3, <4>1
      <3> HIDE DEF r
      <3> QED  BY <3>1, <3>2, <3>3 DEF ReadingSays
    <2>4. CASE ~(o > Len(w))
      <3> DEFINE op == w[o]
                 copy == IF Z(op) = 6 \/ X(op) = 1 THEN {} ELSE {rTable[Z(op) + 1]}
                 names == IF slot THEN copy \cup {AtOf[idx]} ELSE {rTable[Z(op) + 1]}
                 d == IF slot THEN {Signed(w[at + 1])} ELSE {}
                 u == (X(op) = 0 /\ Y(op) = 6) \/ (slot /\ Z(op) # 6)
                 r == [Nothing EXCEPT !.length = o, !.names = names, !.indexD = d, !.undocumented = u]
      <3>1. Decoded(w, at) = r
        BY <2>1, <2>4 DEF decodeCB
      <3> HIDE DEF o, names, d, u
      <3>2. ReadingSays(r, o, names, {}, {}, d, u)
        BY BitSays
      <3> HIDE DEF r
      <3>3. o \in Nat
        BY <1>0 DEF o
      <3> QED  BY <1>0, <1>3, <2>2, <2>4, <3>1, <3>2, <3>3 DEF ReadingSays
    <2> QED  BY <2>3, <2>4
  <1>4. CASE w[at] # 237 /\ w[at] # 203
    <2> DEFINE form == MainForm(w[at], idx)
               u == idx # "none" /\ ~form.indexed
    <2>1. Decoded(w, at) = Read(w, at, form, u)
      BY <1>4 DEF Decoded, decodeMain
    <2>2. PlainLength(w[at]) = 1 + Bytes(form.operand) /\ (form.disp <=> idx # "none" /\ w[at] \in Indexed)
      BY <1>0, MainEncoding DEF Byte
    <2> HIDE DEF u, idx, form
    <2>3. Bytes(form.operand) \in Nat
      BY DEF Bytes
    <2>4. FormEnd(at, form) = EndOf(w, at)
      BY <1>0, <1>1, <1>4, <2>2, <2>3 DEF FormEnd, EndOf
    <2>5. /\ DOMAIN Read(w, at, form, u) = ReadingFields
          /\ Read(w, at, form, u).length
               = IF FormEnd(at, form) <= Len(w) THEN FormEnd(at, form) ELSE Len(w)
      BY ReadLength
    <2> QED  BY <1>4, <2>1, <2>4, <2>5
  <1> QED  BY <1>2, <1>3, <1>4

LEMMA DisassembledLength ==
  ASSUME NEW w \in Seq(Byte), NEW at, Leads(w, at)
  PROVE  disasm(w).length =
           IF (at < Len(w) \/ w[at] # 237) /\ EndOf(w, at) <= Len(w) THEN EndOf(w, at) ELSE Len(w)
  <1> DEFINE r == Decoded(w, at)
             u == r.undocumented \/ Wasted(w, at)
  <1>1. disasm(w) = [r EXCEPT !.undocumented = u]
    BY Disassembled
  <1>2. DOMAIN r = ReadingFields
    BY DecodedLength
  <1>3. disasm(w).length = r.length
    <2> HIDE DEF r, u
    <2> QED  BY <1>1, <1>2 DEF ReadingFields
  <1> QED  BY <1>3, DecodedLength

-----------------------------------------------------------------------------
(* Rows of the preview and fetches of the CPU. *)

WindowOf(mem, a, n) == [b \in 1 .. n |-> mem[(a + b - 1) % Size]]

LEMMA ModInAddr ==
  ASSUME NEW a \in Int
  PROVE  a % Size \in Addr
  BY PortsFit, DivMod DEF Addr

LEMMA ModStep ==
  ASSUME NEW a \in Int, NEW k \in Int
  PROVE  ((a % Size) + k) % Size = (a + k) % Size
  <1> DEFINE s == a + k
  <1>1. s \in Int /\ s - k = a
    OBVIOUS
  <1>2. Size \in Nat \ {0}
    BY PortsFit
  <1> HIDE DEF s
  <1>3. (k + ((s - k) % Size)) % Size = s % Size
    BY <1>1, <1>2, ModAgain, ZenonT(20)
  <1> DEFINE r == a % Size
  <1>4. r \in Int
    BY ModInAddr DEF Addr
  <1> HIDE DEF r
  <1>5. r + k = k + r
    BY <1>4
  <1> QED  BY <1>1, <1>3, <1>5 DEF r, s

LEMMA WindowTypes ==
  ASSUME NEW mem \in [Addr -> Byte], NEW a \in Addr, NEW n \in Nat
  PROVE  /\ WindowOf(mem, a, n) \in Seq(Byte) /\ Len(WindowOf(mem, a, n)) = n
         /\ \A i \in 1 .. n : WindowOf(mem, a, n)[i] = mem[(a + i - 1) % Size]
  <1>1. ASSUME NEW b \in 1 .. n PROVE mem[(a + b - 1) % Size] \in Byte
    <2>1. a + b - 1 \in Int
      BY DEF Addr
    <2> DEFINE i == a + b - 1
    <2>2. i % Size \in Addr
      <3> HIDE DEF i
      <3> QED  BY <2>1, ModInAddr DEF i
    <2> DEFINE j == i % Size
    <2> HIDE DEF j
    <2>3. mem[j] \in Byte
      BY <2>2 DEF j
    <2> QED  BY <2>3 DEF j
  <1> DEFINE f(b) == mem[(a + b - 1) % Size]
             w == [b \in 1 .. n |-> f(b)]
  <1>2. \A b \in 1 .. n : f(b) \in Byte
    BY <1>1
  <1> HIDE DEF f
  <1>3. w \in Seq(Byte) /\ Len(w) = n /\ \A i \in 1 .. n : w[i] = f(i)
    BY <1>2
  <1> QED  BY <1>3 DEF WindowOf, f

(* A longer window says the same where both reach. *)
LEMMA WindowsAgree ==
  ASSUME NEW mem \in [Addr -> Byte], NEW a \in Addr
  PROVE  \A i \in 1 .. 4 : WindowOf(mem, a, 7)[i] = WindowOf(mem, a, 4)[i]
  BY DEF WindowOf

(* Some byte of a window that is not all prefixes is the first that is none. *)
LEMMA SomeLead ==
  ASSUME NEW w \in Seq(Byte), \E i \in DOMAIN w : w[i] \notin Prefix
  PROVE  \E at : Leads(w, at)
  <1> DEFINE opcodes == {i \in DOMAIN w : w[i] \notin Prefix}
  <1>1. opcodes \subseteq Nat /\ opcodes # {}
    OBVIOUS
  <1>2. PICK at \in opcodes : \A i \in opcodes : at <= i
    <2> HIDE DEF opcodes
    <2> QED  BY <1>1, Least
  <1>3. at \in 1 .. Len(w) /\ w[at] \notin Prefix
    OBVIOUS
  <1>4. ASSUME NEW i \in 1 .. at - 1 PROVE w[i] \in Prefix
    <2>1. i \in DOMAIN w /\ ~(at <= i)
      BY <1>3
    <2> QED  BY <1>2, <2>1
  <1> QED  BY <1>3, <1>4 DEF Leads

EndsWithin(w, at, n) == Leads(w, at) /\ at \in 1 .. n /\ EndOf(w, at) \in at .. n
                          /\ (w[at] = 237 => at < n)

(* An instruction that fits in the four bytes of a row: where its opcode   *)
(* is, and that the row is as long as it.                                  *)
LEMMA FittingRow ==
  ASSUME NEW mem \in [Addr -> Byte], NEW a \in Addr, Fits(mem, a)
  PROVE  \E at \in 1 .. 4 : /\ EndsWithin(WindowOf(mem, a, 4), at, 4)
                            /\ disasm(Window(mem, a)).length = EndOf(WindowOf(mem, a, 4), at)
  <1> DEFINE w == WindowOf(mem, a, 7)
             v == WindowOf(mem, a, 4)
  <1>1. w \in Seq(Byte) /\ Len(w) = 7 /\ v \in Seq(Byte) /\ Len(v) = 4
    <2>1. 7 \in Nat /\ 4 \in Nat
      OBVIOUS
    <2> QED  BY <2>1, WindowTypes, Zenon
  <1>2. disasm(w).length <= 4
    BY DEF Fits, WindowOf
  <1>3. \A i \in 1 .. 4 : w[i] = v[i]
    BY WindowsAgree
  <1>4. Window(mem, a) = v
    BY DEF Window, WindowOf
  <1> HIDE DEF w, v
  <1>5. \E i \in DOMAIN w : w[i] \notin Prefix
    <2> SUFFICES ASSUME \A i \in DOMAIN w : w[i] \in Prefix PROVE FALSE
      OBVIOUS
    <2>1. {i \in DOMAIN w : w[i] \notin {221, 253}} = {}
      BY DEF Prefix
    <2>2. disasm(w) = [Nothing EXCEPT !.length = Len(w)]
      BY <2>1 DEF disasm
    <2>3. [Nothing EXCEPT !.length = Len(w)].length = Len(w)
      BY DEF Nothing
    <2> QED  BY <1>1, <1>2, <2>2, <2>3
  <1>6. PICK at : Leads(w, at)
    BY <1>1, <1>5, SomeLead
  <1>7. at \in 1 .. 7 /\ w[at] \in Byte /\ w[at] \notin Prefix /\ \A i \in 1 .. at - 1 : w[i] \in Prefix
    <2>1. at \in 1 .. 7 /\ w[at] \notin Prefix /\ \A i \in 1 .. at - 1 : w[i] \in Prefix
      BY <1>1, <1>6, Zenon DEF Leads
    <2>2. w[at] \in Byte
      <3>1. at \in 1 .. Len(w)
        BY <1>1, <2>1
      <3> QED  BY <1>1, <3>1, ElementOfSeq
    <2> QED  BY <2>1, <2>2
  <1>8. disasm(w).length = IF (at < 7 \/ w[at] # 237) /\ EndOf(w, at) <= 7 THEN EndOf(w, at) ELSE 7
    <2>1. disasm(w).length =
            IF (at < Len(w) \/ w[at] # 237) /\ EndOf(w, at) <= Len(w) THEN EndOf(w, at) ELSE Len(w)
      BY <1>1, <1>6, DisassembledLength
    <2> QED  BY <1>1, <2>1
  <1>9. EndOf(w, at) <= 4 /\ (at < 7 \/ w[at] # 237)
    BY <1>2, <1>8
  <1>10. EndOf(w, at) \in Int /\ EndOf(w, at) >= at /\ (w[at] = 237 => EndOf(w, at) >= at + 1)
    <2>1. PlainLength(w[at]) \in 1 .. 3
      BY DEF PlainLength
    <2> QED  BY <1>7, <2>1 DEF EndOf
  <1>11. at \in 1 .. 4 /\ (w[at] = 237 => at < 4)
    BY <1>7, <1>9, <1>10
  <1>12. EndOf(v, at) = EndOf(w, at)
    <2>1. v[at] = w[at]
      BY <1>3, <1>11
    <2>2. w[at] = 237 => v[at + 1] = w[at + 1]
      BY <1>3, <1>11
    <2> QED  BY <2>1, <2>2 DEF EndOf
  <1>13. Leads(v, at)
    <2>1. v[at] \notin Prefix
      BY <1>3, <1>7, <1>11
    <2>2. ASSUME NEW i \in 1 .. at - 1 PROVE v[i] \in Prefix
      <3>1. i \in 1 .. 4
        BY <1>11
      <3> QED  BY <1>3, <1>7, <3>1
    <2> QED  BY <1>1, <1>11, <2>1, <2>2 DEF Leads
  <1>14. EndsWithin(v, at, 4)
    <2>1. v[at] = w[at]
      BY <1>3, <1>11
    <2> QED  BY <1>9, <1>10, <1>11, <1>12, <1>13, <2>1 DEF EndsWithin
  <1>15. disasm(v).length = EndOf(v, at)
    <2>1. disasm(v).length = IF (at < 4 \/ v[at] # 237) /\ EndOf(v, at) <= 4 THEN EndOf(v, at) ELSE 4
      <3>1. disasm(v).length =
              IF (at < Len(v) \/ v[at] # 237) /\ EndOf(v, at) <= Len(v) THEN EndOf(v, at) ELSE Len(v)
        BY <1>1, <1>13, DisassembledLength
      <3> QED  BY <1>1, <3>1
    <2>2. at < 4 \/ v[at] # 237
      BY <1>11, <1>14 DEF EndsWithin
    <2> QED  BY <1>9, <1>12, <2>1, <2>2
  <1> QED  BY <1>4, <1>11, <1>14, <1>15 DEF v

(* The CPU after the instruction at an address. *)
NextFetch(mem, a) == (a + FetchLength(mem[a], mem[(a + 1) % Size])) % Size

LEMMA FetchLengthTypes ==
  ASSUME NEW b, NEW c
  PROVE  FetchLength(b, c) \in 1 .. 5
  <1>1. PlainLength(b) \in 1 .. 3 /\ PlainLength(c) \in 1 .. 3
    BY DEF PlainLength
  <1> QED  BY <1>1 DEF FetchLength

LEMMA NextFetchInAddr ==
  ASSUME NEW mem, NEW a \in Addr
  PROVE  NextFetch(mem, a) \in Addr
  <1> DEFINE n == FetchLength(mem[a], mem[(a + 1) % Size])
  <1>1. n \in 1 .. 5
    BY FetchLengthTypes
  <1> HIDE DEF n
  <1>2. a + n \in Int
    BY <1>1 DEF Addr
  <1>3. (a + n) % Size \in Addr
    BY <1>2, ModInAddr
  <1> QED  BY <1>3 DEF NextFetch, n

(* A fetch a few bytes on. *)
LEMMA FetchFurther ==
  ASSUME NEW mem, NEW a \in Addr, NEW j \in 0 .. 6
  PROVE  NextFetch(mem, (a + j) % Size)
           = (a + j + FetchLength(mem[(a + j) % Size], mem[(a + j + 1) % Size])) % Size
  <1> DEFINE b == a + j
             n == FetchLength(mem[b % Size], mem[(b + 1) % Size])
  <1>1. b \in Int
    BY DEF Addr
  <1> HIDE DEF b
  <1>2. ((b % Size) + 1) % Size = (b + 1) % Size
    BY <1>1, ModStep
  <1>3. n \in 1 .. 5
    BY FetchLengthTypes
  <1>4. NextFetch(mem, b % Size) = ((b % Size) + n) % Size
    BY <1>2 DEF NextFetch
  <1> HIDE DEF n
  <1>5. ((b % Size) + n) % Size = (b + n) % Size
    BY <1>1, <1>3, ModStep
  <1>6. NextFetch(mem, b % Size) = (b + n) % Size
    BY <1>4, <1>5
  <1> QED  BY <1>6 DEF b, n

(* A fetch at byte i of a window. *)
LEMMA FetchInWindow ==
  ASSUME NEW mem \in [Addr -> Byte], NEW a \in Addr, NEW i \in 1 .. 3
  PROVE  NextFetch(mem, (a + (i - 1)) % Size)
           = (a + (i - 1) + FetchLength(WindowOf(mem, a, 4)[i], WindowOf(mem, a, 4)[i + 1])) % Size
  <1> DEFINE j == i - 1
             w == WindowOf(mem, a, 4)
  <1>1. NextFetch(mem, (a + j) % Size)
           = (a + j + FetchLength(mem[(a + j) % Size], mem[(a + j + 1) % Size])) % Size
    <2>1. j \in 0 .. 6
      OBVIOUS
    <2> HIDE DEF j
    <2> QED  BY <2>1, FetchFurther
  <1>2. w[i] = mem[(a + i - 1) % Size] /\ w[i + 1] = mem[(a + (i + 1) - 1) % Size]
    BY DEF WindowOf
  <1>3. a + i - 1 = a + j /\ a + (i + 1) - 1 = a + j + 1
    BY DEF Addr
  <1>4. w[i] = mem[(a + j) % Size] /\ w[i + 1] = mem[(a + j + 1) % Size]
    BY <1>2, <1>3
  <1> HIDE DEF w
  <1>5. NextFetch(mem, (a + j) % Size) = (a + j + FetchLength(w[i], w[i + 1])) % Size
    BY <1>1, <1>4
  <1> QED  BY <1>5 DEF w

(* From the address of a row that fits to the end of its instruction: the  *)
(* wasted prefixes, a byte each, and the instruction.                      *)
LEMMA RowFetches ==
  ASSUME NEW mem \in [Addr -> Byte], NEW a \in Addr, Fits(mem, a)
  PROVE  \E s \in 0 .. 2 :
           /\ \A i \in 0 .. s - 1 : NextFetch(mem, (a + i) % Size) = (a + (i + 1)) % Size
           /\ NextFetch(mem, (a + s) % Size) = (a + disasm(Window(mem, a)).length) % Size
  <1> DEFINE w == WindowOf(mem, a, 4)
             B(i) == (a + i) % Size
             N(b) == NextFetch(mem, b)
  <1>1. PICK at \in 1 .. 4 : EndsWithin(w, at, 4) /\ disasm(Window(mem, a)).length = EndOf(w, at)
    BY FittingRow
  <1> DEFINE end == EndOf(w, at)
             s == IF w[at] = 237 \/ at = 1 THEN at - 1 ELSE at - 2
  <1>2. ASSUME NEW i \in 1 .. 3 PROVE N(B(i - 1)) = (a + (i - 1) + FetchLength(w[i], w[i + 1])) % Size
    BY FetchInWindow
  <1>3. /\ w[at] \notin Prefix /\ (w[at] = 237 => at < 4) /\ end \in at .. 4
        /\ \A i \in 1 .. at - 1 : w[i] \in Prefix
    BY <1>1 DEF EndsWithin, Leads
  <1> HIDE DEF w, N
  <1>4. ASSUME NEW i \in 0 .. s - 1 PROVE N(B(i)) = B(i + 1)
    <2>1. i + 1 \in 1 .. 3 /\ w[i + 1] \in Prefix /\ (i + 2 < at \/ (i + 2 = at /\ w[at] = 237))
      BY <1>3
    <2>2. w[(i + 1) + 1] \in Prefix \cup {237}
      BY <1>3, <2>1
    <2>3. FetchLength(w[i + 1], w[(i + 1) + 1]) = 1
      BY <2>1, <2>2 DEF FetchLength, Prefix, Indexed
    <2> DEFINE k == i + 1
    <2>4. N(B(k - 1)) = (a + (k - 1) + FetchLength(w[k], w[k + 1])) % Size
      <3>1. k \in 1 .. 3
        BY <2>1
      <3> HIDE DEF k
      <3> QED  BY <1>2, <3>1
    <2>5. k - 1 = i /\ a + (k - 1) + 1 = a + (i + 1)
      BY DEF Addr
    <2> QED  BY <2>3, <2>4, <2>5
  <1>5. N(B(s)) = B(end)
    <2>1. CASE w[at] = 237
      <3>1. at \in 1 .. 3 /\ s = at - 1
        BY <1>3, <2>1
      <3>2. N(B(at - 1)) = (a + (at - 1) + FetchLength(w[at], w[at + 1])) % Size
        BY <1>2, <3>1
      <3>3. FetchLength(w[at], w[at + 1]) = IF w[at + 1] \in ExtendedWord THEN 4 ELSE 2
        BY <2>1 DEF FetchLength, Prefix
      <3>4. end = at + (IF w[at + 1] \in ExtendedWord THEN 3 ELSE 1)
        BY <2>1 DEF EndOf
      <3>5. a + (at - 1) + FetchLength(w[at], w[at + 1]) = a + end
        BY <3>1, <3>3, <3>4 DEF Addr
      <3> QED  BY <3>1, <3>2, <3>5
    <2>2. CASE w[at] # 237 /\ at = 1
      <3>1. s = 0 /\ 1 \in 1 .. 3 /\ 1 - 1 = 0 /\ 1 + 1 = 2
        BY <2>2
      <3>2. N(B(0)) = (a + 0 + FetchLength(w[1], w[2])) % Size
        BY <1>2, <3>1
      <3>3. FetchLength(w[1], w[2]) = end
        <4>1. PlainLength(w[1]) \in 1 .. 3
          BY DEF PlainLength
        <4> QED  BY <1>3, <2>2, <4>1 DEF FetchLength, EndOf
      <3>4. a + 0 + FetchLength(w[1], w[2]) = a + end
        BY <1>3, <3>3 DEF Addr
      <3> QED  BY <3>1, <3>2, <3>4
    <2>3. CASE w[at] # 237 /\ at # 1
      <3> DEFINE k == at - 1
      <3>1. k \in 1 .. 3 /\ s = k - 1 /\ w[k] \in Prefix /\ k + 1 = at
        BY <1>3, <2>3
      <3>2. N(B(k - 1)) = (a + (k - 1) + FetchLength(w[k], w[k + 1])) % Size
        <4> HIDE DEF k
        <4> QED  BY <1>2, <3>1
      <3>3. FetchLength(w[k], w[at]) = end - (k - 1)
        <4>1. PlainLength(w[at]) \in 1 .. 3
          BY DEF PlainLength
        <4>2. CASE w[at] = 203
          <5>1. FetchLength(w[k], w[at]) = 4
            BY <3>1, <4>2 DEF FetchLength, Prefix, Indexed
          <5>2. end = at + 2
            BY <2>3, <4>2 DEF EndOf
          <5> QED  BY <5>1, <5>2
        <4>3. CASE w[at] # 203
          <5>1. FetchLength(w[k], w[at]) = (IF w[at] \in Indexed THEN 2 ELSE 1) + PlainLength(w[at])
            BY <1>3, <2>3, <3>1, <4>3 DEF FetchLength, Prefix
          <5>2. end = at + PlainLength(w[at]) - 1 + (IF w[at] \in Indexed THEN 1 ELSE 0)
            BY <2>3, <4>3 DEF EndOf
          <5> QED  BY <4>1, <5>1, <5>2
        <4> QED  BY <4>2, <4>3
      <3>4. a + (k - 1) + FetchLength(w[k], w[at]) = a + end
        BY <1>3, <3>1, <3>3 DEF Addr
      <3> QED  BY <3>1, <3>2, <3>4
    <2> QED  BY <2>1, <2>2, <2>3
  <1>6. s \in 0 .. 2
    BY <1>3
  <1> HIDE DEF s
  <1> QED  BY <1>1, <1>4, <1>5, <1>6 DEF N

(* The addresses the CPU fetches at are a history of fetches. *)
LEMMA FetchHistory ==
  ASSUME NEW mem \in [Addr -> Byte], NEW origin \in Addr
  PROVE  \E f \in [0 .. 4 * PreviewCount -> Addr] :
           /\ f[0] = origin
           /\ \A i \in 1 .. 4 * PreviewCount : f[i] = NextFetch(mem, f[i - 1])
           /\ FetchStarts(mem, origin) = {f[i] : i \in 0 .. 4 * PreviewCount}
  <1> DEFINE N == 4 * PreviewCount
             step == [i \in 1 .. N |-> [v \in Addr |-> NextFetch(mem, v)]]
             Goes(g) == g = [i \in 0 .. N |->
                              IF i = 0 THEN origin
                              ELSE LET a == g[i - 1]
                                   IN  (a + FetchLength(mem[a], mem[(a + 1) % Size])) % Size]
             at == CHOOSE g : Goes(g)
  <1>0. N \in Nat
    BY ViewAssumption DEF ViewAssumption
  <1>1. step \in [1 .. N -> [Addr -> Addr]]
    BY NextFetchInAddr
  <1>2. FetchStarts(mem, origin) = {at[i] : i \in DOMAIN at}
    BY DEF FetchStarts
  <1> HIDE DEF N
  <1>3. PICK f \in [0 .. N -> Addr] : IsHistory(f, N, origin, step)
    <2> DEFINE V == Addr
    <2>1. origin \in V /\ step \in [1 .. N -> [V -> V]]
      BY <1>1
    <2> HIDE DEF step, at, Goes, V
    <2>2. \E f \in [0 .. N -> V] : IsHistory(f, N, origin, step)
      BY <1>0, <2>1, Iterates
    <2> QED  BY <2>2 DEF V
  <1>4. Goes(f)
    <2>1. ASSUME NEW i \in 0 .. N
          PROVE  f[i] = IF i = 0 THEN origin
                        ELSE LET a == f[i - 1]
                             IN  (a + FetchLength(mem[a], mem[(a + 1) % Size])) % Size
      <3>1. CASE i = 0
        BY <1>3, <3>1 DEF IsHistory
      <3>2. CASE i # 0
        <4>1. i \in 1 .. N /\ i - 1 \in 0 .. N
          BY <1>0, <3>2
        <4>2. f[i - 1] \in Addr
          BY <4>1
        <4>3. f[i] = step[i][f[i - 1]]
          BY <1>3, <4>1 DEF IsHistory
        <4>4. step[i][f[i - 1]] = NextFetch(mem, f[i - 1])
          BY <4>1, <4>2
        <4> QED  BY <3>2, <4>3, <4>4 DEF NextFetch
      <3> QED  BY <3>1, <3>2
    <2> DEFINE Following(g, i) == IF i = 0 THEN origin
                             ELSE LET a == g[i - 1]
                                  IN  (a + FetchLength(mem[a], mem[(a + 1) % Size])) % Size
    <2>2. \A i \in 0 .. N : f[i] = Following(f, i)
      BY <2>1
    <2> HIDE DEF Following
    <2>3. f = [i \in 0 .. N |-> Following(f, i)]
      BY <2>2
    <2> QED  BY <2>3 DEF Following
  <1>5. Goes(at)
    <2> HIDE DEF Goes
    <2> QED  BY <1>4
  <1> HIDE DEF at
  <1>6. DOMAIN at = 0 .. N
    BY <1>5
  <1>7. at[0] = origin
    BY <1>0, <1>5
  <1>8. ASSUME NEW i \in 1 .. N PROVE at[i] = NextFetch(mem, at[i - 1])
    <2>1. i \in 0 .. N /\ i # 0
      BY <1>0
    <2>2. at[i] = [j \in 0 .. N |->
                     IF j = 0 THEN origin
                     ELSE LET a == at[j - 1]
                          IN  (a + FetchLength(mem[a], mem[(a + 1) % Size])) % Size][i]
      BY <1>5, Zenon
    <2> QED  BY <2>1, <2>2 DEF NextFetch
  <1> DEFINE Known == {i \in 0 .. N : at[i] \in Addr}
  <1>9. 0 \in Known
    BY <1>0, <1>7
  <1>10. ASSUME NEW i \in 1 .. N, i - 1 \in Known PROVE i \in Known
    <2>1. at[i] \in Addr
      BY <1>8, <1>10, NextFetchInAddr
    <2> QED  BY <1>0, <2>1
  <1>11. at \in [0 .. N -> Addr]
    <2>1. \A i \in 0 .. N : i \in Known
      <3> HIDE DEF Known
      <3> QED  BY <1>0, <1>9, <1>10, Climbs
    <2>2. at = [i \in 0 .. N |-> at[i]]
      BY <1>5
    <2> QED  BY <2>1, <2>2
  <1> HIDE DEF Goes, Known, step
  <1>12. FetchStarts(mem, origin) = {at[i] : i \in 0 .. N}
    BY <1>2, <1>6
  <1> QED  BY <1>7, <1>8, <1>11, <1>12 DEF N

LEMMA RowLengthTypes ==
  ASSUME NEW mem \in [Addr -> Byte], NEW a \in Addr
  PROVE  disasm(Window(mem, a)).length \in Int
  <1> DEFINE w == WindowOf(mem, a, 4)
  <1>1. Window(mem, a) = w
    BY DEF Window, WindowOf
  <1>2. w \in Seq(Byte)
    <2>1. 4 \in Nat
      OBVIOUS
    <2> QED  BY <2>1, WindowTypes, Zenon
  <1> HIDE DEF w
  <1>3. CASE \E i \in DOMAIN w : w[i] \notin Prefix
    <2>1. PICK at : Leads(w, at)
      BY <1>2, <1>3, SomeLead
    <2>2. disasm(w).length
            = IF (at < Len(w) \/ w[at] # 237) /\ EndOf(w, at) <= Len(w) THEN EndOf(w, at) ELSE Len(w)
      BY <1>2, <2>1, DisassembledLength
    <2>3. Len(w) \in Int /\ at \in Int
      BY <1>2, <2>1 DEF Leads
    <2>4. PlainLength(w[at]) \in 1 .. 3
      BY DEF PlainLength
    <2>5. EndOf(w, at) \in Int
      BY <2>3, <2>4 DEF EndOf
    <2> QED  BY <1>1, <2>2, <2>3, <2>5
  <1>4. CASE \A i \in DOMAIN w : w[i] \in Prefix
    <2>1. {i \in DOMAIN w : w[i] \notin {221, 253}} = {}
      BY <1>4 DEF Prefix
    <2>2. disasm(w) = [Nothing EXCEPT !.length = Len(w)]
      BY <2>1 DEF disasm
    <2>3. [Nothing EXCEPT !.length = Len(w)].length = Len(w)
      BY DEF Nothing
    <2> QED  BY <1>1, <1>2, <2>2, <2>3
  <1> QED  BY <1>3, <1>4

(* The rows of a preview follow each other. *)
RowAt(mem, a) == [addr |-> a, length |-> disasm(Window(mem, a)).length]

AfterRow(mem, r) == (r.addr + r.length) % Size

LEMMA RowTypes ==
  ASSUME NEW mem \in [Addr -> Byte], NEW a \in Addr
  PROVE  RowAt(mem, a) \in [addr : Addr, length : Int]
  BY RowLengthTypes DEF RowAt

LEMMA AfterRowTypes ==
  ASSUME NEW mem, NEW r \in [addr : Addr, length : Int]
  PROVE  AfterRow(mem, r) \in Addr
  <1> DEFINE a == r.addr + r.length
  <1>1. a \in Int
    BY DEF Addr
  <1> HIDE DEF a
  <1>2. a % Size \in Addr
    BY <1>1, ModInAddr
  <1> QED  BY <1>2 DEF AfterRow, a

LEMMA PreviewHistory ==
  ASSUME NEW mem \in [Addr -> Byte], NEW origin \in Addr
  PROVE  LET p == previewLines(mem, origin) IN
         /\ \A i \in 1 .. PreviewCount : p[i] \in [addr : Addr, length : Int]
         /\ p[1] = RowAt(mem, origin)
         /\ \A i \in 2 .. PreviewCount : p[i] = RowAt(mem, AfterRow(mem, p[i - 1]))
  <1> DEFINE Rows4 == [addr : Addr, length : Int]
             N == PreviewCount - 1
             step == [i \in 1 .. N |-> [v \in Rows4 |-> RowAt(mem, AfterRow(mem, v))]]
             base == RowAt(mem, origin)
             Line(g, i) == LET a == IF i = 1 THEN origin
                                    ELSE LET before == g[i - 1] IN (before.addr + before.length) % Size
                           IN  [addr |-> a, length |-> disasm(Window(mem, a)).length]
             Goes(g) == g = [i \in 1 .. PreviewCount |-> Line(g, i)]
             row == CHOOSE g : Goes(g)
             p == previewLines(mem, origin)
  <1>0. PreviewCount \in Nat \ {0} /\ N \in Nat /\ PreviewCount = N + 1
    BY ViewAssumption DEF ViewAssumption
  <1>1. p = [i \in 1 .. PreviewCount |-> row[i]]
    BY DEF previewLines
  <1>2. base \in Rows4
    BY RowTypes
  <1>3. step \in [1 .. N -> [Rows4 -> Rows4]]
    <2>1. ASSUME NEW v \in Rows4 PROVE RowAt(mem, AfterRow(mem, v)) \in Rows4
      <3>1. AfterRow(mem, v) \in Addr
        BY AfterRowTypes
      <3> QED  BY <3>1, RowTypes
    <2> HIDE DEF Rows4
    <2> QED  BY <2>1
  <1>4. ASSUME NEW g, NEW i \in 1 .. PreviewCount
        PROVE  Line(g, i) = IF i = 1 THEN base ELSE RowAt(mem, AfterRow(mem, g[i - 1]))
    BY DEF RowAt, AfterRow
  <1> HIDE DEF Line, row, p
  <1>5. PICK f \in [0 .. N -> Rows4] : IsHistory(f, N, base, step)
    <2> DEFINE V == Rows4
    <2>1. base \in V /\ step \in [1 .. N -> [V -> V]]
      BY <1>2, <1>3
    <2> HIDE DEF step, base, Goes, V, N
    <2>2. \E f \in [0 .. N -> V] : IsHistory(f, N, base, step)
      BY <1>0, <2>1, Iterates
    <2> QED  BY <2>2 DEF V
  <1> DEFINE h == [i \in 1 .. PreviewCount |-> f[i - 1]]
  <1>6. Goes(h)
    <2>1. ASSUME NEW i \in 1 .. PreviewCount PROVE h[i] = Line(h, i)
      <3>1. CASE i = 1
        <4>1. h[i] = base
          BY <1>5, <3>1 DEF IsHistory
        <4> QED  BY <1>4, <3>1, <4>1
      <3>2. CASE i # 1
        <4>1. i - 1 \in 1 .. N /\ i - 1 \in 1 .. PreviewCount /\ (i - 1) - 1 \in 0 .. N
          BY <1>0, <3>2
        <4>2. h[i] = step[i - 1][f[(i - 1) - 1]]
          BY <1>5, <4>1 DEF IsHistory
        <4>3. h[i - 1] = f[(i - 1) - 1] /\ f[(i - 1) - 1] \in Rows4
          BY <4>1
        <4>4. step[i - 1][f[(i - 1) - 1]] = RowAt(mem, AfterRow(mem, f[(i - 1) - 1]))
          <5> DEFINE k == i - 1
                     v == f[k - 1]
          <5>1. k \in 1 .. N /\ v \in Rows4
            BY <4>1, <4>3
          <5> HIDE DEF k, v, Rows4, N
          <5>2. step[k][v] = RowAt(mem, AfterRow(mem, v))
            BY <5>1
          <5> QED  BY <5>2 DEF k, v
        <4>5. Line(h, i) = RowAt(mem, AfterRow(mem, h[i - 1]))
          BY <1>4, <3>2
        <4> QED  BY <4>2, <4>3, <4>4, <4>5
      <3> QED  BY <3>1, <3>2
    <2>2. h = [i \in 1 .. PreviewCount |-> h[i]]
      OBVIOUS
    <2> HIDE DEF h
    <2> QED  BY <2>1, <2>2
  <1>7. Goes(row)
    <2> HIDE DEF Goes, h
    <2> QED  BY <1>6 DEF row
  <1>8. ASSUME NEW i \in 1 .. PreviewCount
        PROVE  p[i] = IF i = 1 THEN base ELSE RowAt(mem, AfterRow(mem, row[i - 1]))
    <2>1. p[i] = row[i]
      BY <1>1
    <2>2. row[i] = Line(row, i)
      BY <1>7
    <2> QED  BY <1>4, <2>1, <2>2
  <1>9. p[1] = RowAt(mem, origin)
    BY <1>0, <1>8
  <1>10. ASSUME NEW i \in 2 .. PreviewCount PROVE p[i] = RowAt(mem, AfterRow(mem, p[i - 1]))
    <2>1. i \in 1 .. PreviewCount /\ i # 1 /\ i - 1 \in 1 .. PreviewCount
      BY <1>0
    <2>2. p[i - 1] = row[i - 1]
      BY <1>1, <2>1
    <2> QED  BY <1>8, <2>1, <2>2
  <1> DEFINE Known == {n \in 0 .. N : p[n + 1] \in Rows4}
  <1>11. 0 \in Known
    BY <1>0, <1>2, <1>9
  <1>12. ASSUME NEW n \in 1 .. N, n - 1 \in Known PROVE n \in Known
    <2>1. n + 1 \in 2 .. PreviewCount /\ (n + 1) - 1 = n /\ (n - 1) + 1 = n
      BY <1>0
    <2>2. p[n] \in Rows4
      BY <1>12, <2>1
    <2>3. p[n + 1] = RowAt(mem, AfterRow(mem, p[n]))
      <3> DEFINE k == n + 1
      <3>1. k \in 2 .. PreviewCount /\ k - 1 = n
        BY <2>1
      <3> HIDE DEF k
      <3>2. p[k] = RowAt(mem, AfterRow(mem, p[k - 1]))
        BY <1>10, <3>1
      <3> QED  BY <3>1, <3>2 DEF k
    <2>4. AfterRow(mem, p[n]) \in Addr
      BY <2>2, AfterRowTypes
    <2>5. p[n + 1] \in Rows4
      BY <2>3, <2>4, RowTypes
    <2> QED  BY <1>0, <2>5
  <1>13. ASSUME NEW i \in 1 .. PreviewCount PROVE p[i] \in Rows4
    <2>1. \A n \in 0 .. N : n \in Known
      <3> HIDE DEF Known, N
      <3> QED  BY <1>0, <1>11, <1>12, Climbs
    <2>2. i - 1 \in 0 .. N /\ (i - 1) + 1 = i
      BY <1>0
    <2> QED  BY <2>1, <2>2
  <1> QED  BY <1>9, <1>10, <1>13 DEF p

(* As long as the rows above fit, a row is where a fetch is: no more than  *)
(* three fetches to a row.                                                 *)
LEMMA RowsAreFetched ==
  ASSUME NEW mem \in [Addr -> Byte], NEW origin \in Addr, NEW i \in 1 .. PreviewCount,
         \A j \in 1 .. i - 1 : Fits(mem, previewLines(mem, origin)[j].addr)
  PROVE  previewLines(mem, origin)[i].addr \in FetchStarts(mem, origin)
  <1> DEFINE p == previewLines(mem, origin)
             M == 4 * PreviewCount
  <1>0. PreviewCount \in Nat \ {0} /\ M \in Nat
    BY ViewAssumption DEF ViewAssumption
  <1>1. /\ \A n \in 1 .. PreviewCount : p[n] \in [addr : Addr, length : Int]
        /\ p[1] = RowAt(mem, origin)
        /\ \A n \in 2 .. PreviewCount : p[n] = RowAt(mem, AfterRow(mem, p[n - 1]))
    BY PreviewHistory
  <1>2. PICK f \in [0 .. M -> Addr] :
          /\ f[0] = origin
          /\ \A n \in 1 .. M : f[n] = NextFetch(mem, f[n - 1])
          /\ FetchStarts(mem, origin) = {f[n] : n \in 0 .. M}
    BY FetchHistory
  <1>3. \A j \in 1 .. i - 1 : Fits(mem, p[j].addr)
    OBVIOUS
  <1> HIDE DEF p
  <1> DEFINE Good == {n \in 0 .. i - 1 : \E k \in 0 .. 3 * n : f[k] = p[n + 1].addr}
  <1>4. 0 \in Good
    <2>1. p[1].addr = origin
      BY <1>1 DEF RowAt
    <2> QED  BY <1>2, <2>1
  <1>5. ASSUME NEW n \in 1 .. i - 1, n - 1 \in Good PROVE n \in Good
    <2>0. /\ n \in 1 .. PreviewCount /\ n + 1 \in 2 .. PreviewCount
          /\ (n - 1) + 1 = n /\ n + 1 \in 1 .. PreviewCount
      BY <1>0
    <2>1. PICK k \in 0 .. 3 * (n - 1) : f[k] = p[n].addr
      BY <1>5, <2>0
    <2> DEFINE a == p[n].addr
               l == disasm(Window(mem, a)).length
    <2>2. a \in Addr /\ Fits(mem, a)
      BY <1>1, <1>3, <2>0
    <2>3. p[n].length = l
      <3>1. CASE n = 1
        BY <1>1, <3>1 DEF RowAt
      <3>2. CASE n # 1
        <4>1. p[n] = RowAt(mem, AfterRow(mem, p[n - 1]))
          <5>1. n \in 2 .. PreviewCount
            BY <2>0, <3>2
          <5> QED  BY <1>1, <5>1
        <4> QED  BY <4>1 DEF RowAt
      <3> QED  BY <3>1, <3>2
    <2>4. p[n + 1].addr = (a + l) % Size
      <3> DEFINE m == n + 1
      <3>1. m \in 2 .. PreviewCount /\ m - 1 = n
        BY <2>0
      <3> HIDE DEF m, l
      <3>2. p[m] = RowAt(mem, AfterRow(mem, p[m - 1]))
        BY <1>1, <3>1
      <3>3. p[m].addr = AfterRow(mem, p[n])
        BY <3>1, <3>2 DEF RowAt
      <3> QED  BY <2>3, <3>3 DEF AfterRow, m
    <2> HIDE DEF a, l
    <2>5. PICK s \in 0 .. 2 :
            /\ \A j \in 0 .. s - 1 : NextFetch(mem, (a + j) % Size) = (a + (j + 1)) % Size
            /\ NextFetch(mem, (a + s) % Size) = (a + l) % Size
      BY <2>2, RowFetches DEF l
    <2>6. k \in 0 .. M /\ k + 1 \in 1 .. M /\ k + 2 \in 1 .. M /\ k + 3 \in 1 .. M
      BY <1>0, <2>0
    <2>7. f[k] = (a + 0) % Size
      <3>1. Size \in Nat \ {0} /\ a \in 0 .. Size - 1 /\ a + 0 = a
        BY <2>2, PortsFit DEF Addr
      <3>2. a % Size = a
        BY <3>1, ModSmall
      <3> QED  BY <2>1, <3>1, <3>2 DEF a
    <2>8. f[k + 1] = NextFetch(mem, f[k]) /\ f[k + 2] = NextFetch(mem, f[k + 1])
          /\ f[k + 3] = NextFetch(mem, f[k + 2])
      <3>1. \A m \in 1 .. M : f[m] = NextFetch(mem, f[m - 1])
        BY <1>2
      <3>2. (k + 1) - 1 = k /\ (k + 2) - 1 = k + 1 /\ (k + 3) - 1 = k + 2
        BY <2>6
      <3> QED  BY <2>6, <3>1, <3>2
    <2>9. f[k + (s + 1)] = p[n + 1].addr
      <3>1. CASE s = 0
        BY <2>4, <2>5, <2>7, <2>8, <3>1
      <3>2. CASE s = 1
        <4>1. NextFetch(mem, (a + 0) % Size) = (a + 1) % Size
          BY <2>5, <3>2
        <4>2. f[k + 1] = (a + 1) % Size
          BY <2>7, <2>8, <4>1
        <4> QED  BY <2>4, <2>5, <2>8, <3>2, <4>2
      <3>3. CASE s = 2
        <4>1. NextFetch(mem, (a + 0) % Size) = (a + 1) % Size
              /\ NextFetch(mem, (a + 1) % Size) = (a + 2) % Size
          BY <2>5, <3>3
        <4>2. f[k + 1] = (a + 1) % Size
          BY <2>7, <2>8, <4>1
        <4>3. f[k + 2] = (a + 2) % Size
          BY <2>8, <4>1, <4>2
        <4> QED  BY <2>4, <2>5, <2>8, <3>3, <4>3
      <3> QED  BY <3>1, <3>2, <3>3
    <2>10. k + (s + 1) \in 0 .. 3 * n
      OBVIOUS
    <2> QED  BY <2>9, <2>10
  <1>6. i - 1 \in Good
    <2>1. i - 1 \in Nat
      BY <1>0
    <2> HIDE DEF Good
    <2>2. \A n \in 0 .. i - 1 : n \in Good
      BY <1>4, <1>5, <2>1, Climbs
    <2> QED  BY <2>1, <2>2
  <1>7. PICK k \in 0 .. 3 * (i - 1) : f[k] = p[(i - 1) + 1].addr
    BY <1>6
  <1>8. k \in 0 .. M /\ (i - 1) + 1 = i
    BY <1>0
  <1> QED  BY <1>2, <1>7, <1>8 DEF p

(* PreviewStartsInstructions: below rows that fit, every row starts where  *)
(* the CPU would fetch an instruction, across the end of memory, too: a    *)
(* row is as long as the fetches of its prefixes and of its opcode are.    *)
THEOREM RowsStartInstructions == ViewSpec => []PreviewStartsInstructions
  <1>1. VInv => PreviewStartsInstructions
    <2> SUFFICES ASSUME VInv, NEW i \in 1 .. PreviewCount, status = "paused",
                        \A j \in 1 .. i - 1 : Fits(planes.mem, preview[j].addr)
                 PROVE  preview[i].addr \in FetchStarts(planes.mem, pc)
      BY DEF PreviewStartsInstructions
    <2>1. preview = previewLines(planes.mem, pc)
      BY DEF VInv, PreviewCurrent
    <2>2. planes.mem \in [Addr -> Byte] /\ pc \in Addr
      BY DEF VInv, BusTypes
    <2> QED  BY <2>1, <2>2, RowsAreFetched
  <1> QED  BY <1>1, ViewsInvariant, PTL

(* The first bytes of a sequence. *)
Begins(v, w, n) == /\ v \in Seq(Byte) /\ w \in Seq(Byte) /\ Len(v) = n /\ n <= Len(w)
                   /\ \A i \in 1 .. n : v[i] = w[i]

LEMMA FirstBytes ==
  ASSUME NEW w \in Seq(Byte), NEW n \in 1 .. Len(w)
  PROVE  Begins(SubSeq(w, 1, n), w, n)
  <1>1. SubSeq(w, 1, n) \in Seq(Byte) /\ Len(SubSeq(w, 1, n)) = n
    OBVIOUS
  <1>2. \A i \in 1 .. n : SubSeq(w, 1, n)[i] = w[i]
    OBVIOUS
  <1> QED  BY <1>1, <1>2 DEF Begins

(* What a reading takes is within the instruction it reads. *)
LEMMA ReadAgrees ==
  ASSUME NEW v, NEW w, NEW n \in Nat, Begins(v, w, n), NEW at \in 1 .. n,
         NEW form, NEW u, FormEnd(at, form) <= n
  PROVE  Read(v, at, form, u) = Read(w, at, form, u)
  <1> DEFINE o == at + (IF form.disp THEN 2 ELSE 1)
  <1>0. Len(v) = n /\ Len(w) \in Nat /\ n <= Len(w) /\ \A i \in 1 .. n : v[i] = w[i]
    BY DEF Begins
  <1>1. Bytes(form.operand) \in 0 .. 2
    BY DEF Bytes
  <1>2. o + Bytes(form.operand) - 1 <= Len(v) /\ o + Bytes(form.operand) - 1 <= Len(w)
    BY <1>0, <1>1 DEF FormEnd
  <1>3. form.operand = "e" => v[o] = w[o]
    <2>1. form.operand = "e" => Bytes(form.operand) = 1
      BY DEF Bytes
    <2> QED  BY <1>0, <1>2, <2>1
  <1>4. form.operand = "nn" => v[o] = w[o] /\ v[o + 1] = w[o + 1]
    <2>1. form.operand = "nn" => Bytes(form.operand) = 2
      BY DEF Bytes
    <2> QED  BY <1>0, <1>2, <2>1
  <1>5. form.disp => at + 1 <= Len(v) /\ at + 1 <= Len(w) /\ v[at + 1] = w[at + 1]
    BY <1>0, <1>1, <1>2
  <1>6. Read(v, at, form, u).length = Read(w, at, form, u).length
    BY <1>2 DEF Read
  <1>7. Read(v, at, form, u).rel = Read(w, at, form, u).rel
    BY <1>2, <1>3 DEF Read
  <1>8. Read(v, at, form, u).abs = Read(w, at, form, u).abs
    BY <1>2, <1>4 DEF Read
  <1>9. Read(v, at, form, u).indexD = Read(w, at, form, u).indexD
    BY <1>5 DEF Read
  <1>10. Read(v, at, form, u).incomplete = Read(w, at, form, u).incomplete
    BY <1>2 DEF Read
  <1>11. /\ Read(v, at, form, u).names = Read(w, at, form, u).names
         /\ Read(v, at, form, u).undocumented = Read(w, at, form, u).undocumented
    BY DEF Read
  <1> DEFINE rec(r) == [length |-> r.length, names |-> r.names, rel |-> r.rel, abs |-> r.abs,
                        indexD |-> r.indexD, incomplete |-> r.incomplete, undocumented |-> r.undocumented]
  <1>12. Read(v, at, form, u) = rec(Read(v, at, form, u))
    BY DEF Read
  <1>13. Read(w, at, form, u) = rec(Read(w, at, form, u))
    BY DEF Read
  <1> DEFINE rv == Read(v, at, form, u)
             rw == Read(w, at, form, u)
  <1> HIDE DEF rv, rw
  <1>14. rec(rv) = rec(rw)
    BY <1>6, <1>7, <1>8, <1>9, <1>10, <1>11 DEF rv, rw
  <1> QED  BY <1>12, <1>13, <1>14 DEF rv, rw

LEMMA ReadShort ==
  ASSUME NEW w, NEW at, NEW form, NEW u, ~(FormEnd(at, form) <= Len(w))
  PROVE  Read(w, at, form, u).rel = {} /\ Read(w, at, form, u).abs = {}
  BY DEF Read, FormEnd

(* The form of an opcode after ED, and where it ends. *)
ExtendedForm(op) ==
  Form(FALSE, IF X(op) = 1 /\ Z(op) = 3 THEN "nn" ELSE "-",
       CASE X(op) = 1 /\ Z(op) < 2        -> IF Y(op) = 6 THEN {} ELSE {rTable[Y(op) + 1]}
         [] X(op) = 1 /\ Z(op) = 2        -> {"HL", rpTable[P(op) + 1]}
         [] X(op) = 1 /\ Z(op) = 3        -> {rpTable[P(op) + 1]}
         [] OTHER                         -> {},
       FALSE)

LEMMA DecodedED ==
  ASSUME NEW w, NEW at, at # Len(w)
  PROVE  decodeED(w, at) = Read(w, at + 1, ExtendedForm(w[at + 1]), ~EDDocumented(w[at + 1]))
  BY DEF decodeED, ExtendedForm

LEMMA ExtendedEnd ==
  ASSUME NEW at \in Nat, NEW op \in 0 .. 255
  PROVE  FormEnd(at + 1, ExtendedForm(op)) = at + (IF op \in ExtendedWord THEN 3 ELSE 1)
  <1> DEFINE names == CASE X(op) = 1 /\ Z(op) < 2        -> IF Y(op) = 6 THEN {} ELSE {rTable[Y(op) + 1]}
                        [] X(op) = 1 /\ Z(op) = 2        -> {"HL", rpTable[P(op) + 1]}
                        [] X(op) = 1 /\ Z(op) = 3        -> {rpTable[P(op) + 1]}
                        [] OTHER                         -> {}
             operand == IF X(op) = 1 /\ Z(op) = 3 THEN "nn" ELSE "-"
             form == Form(FALSE, operand, names, FALSE)
  <1>1. ~form.disp /\ form.operand = operand
    <2> HIDE DEF operand, names
    <2> QED  BY DEF Form
  <1>2. operand = IF op \in ExtendedWord THEN "nn" ELSE "-"
    BY ExtendedEncoding
  <1>3. ExtendedForm(op) = form
    BY DEF ExtendedForm
  <1> HIDE DEF form, operand
  <1>4. Bytes(form.operand) = IF op \in ExtendedWord THEN 2 ELSE 0
    BY <1>1, <1>2 DEF Bytes
  <1> QED  BY <1>1, <1>3, <1>4 DEF FormEnd

LEMMA ExtendedNoSlot ==
  ASSUME NEW op
  PROVE  ~ExtendedForm(op).disp
  <1> DEFINE names == CASE X(op) = 1 /\ Z(op) < 2        -> IF Y(op) = 6 THEN {} ELSE {rTable[Y(op) + 1]}
                        [] X(op) = 1 /\ Z(op) = 2        -> {"HL", rpTable[P(op) + 1]}
                        [] X(op) = 1 /\ Z(op) = 3        -> {rpTable[P(op) + 1]}
                        [] OTHER                         -> {}
             operand == IF X(op) = 1 /\ Z(op) = 3 THEN "nn" ELSE "-"
  <1>1. ExtendedForm(op) = Form(FALSE, operand, names, FALSE)
    BY DEF ExtendedForm
  <1> HIDE DEF operand, names
  <1> QED  BY <1>1 DEF Form

LEMMA MainEnd ==
  ASSUME NEW w, NEW at \in Nat \ {0}, w[at] \in 0 .. 255, w[at] # 237, w[at] # 203
  PROVE  FormEnd(at, MainForm(w[at], IndexOf(w, at))) = EndOf(w, at)
  <1> DEFINE idx  == IndexOf(w, at)
             form == MainForm(w[at], idx)
  <1>1. idx # "none" <=> at > 1
    BY IndexOfNone
  <1>2. PlainLength(w[at]) = 1 + Bytes(form.operand) /\ (form.disp <=> idx # "none" /\ w[at] \in Indexed)
    BY MainEncoding
  <1> HIDE DEF idx, form
  <1>3. Bytes(form.operand) \in Nat
    BY DEF Bytes
  <1>4. FormEnd(at, form) = EndOf(w, at)
    BY <1>1, <1>2, <1>3 DEF FormEnd, EndOf
  <1> QED  BY <1>4 DEF form, idx

(* More bytes than the instruction has do not change its reading. *)
LEMMA DecodedAgrees ==
  ASSUME NEW v, NEW w, NEW n \in Nat, Begins(v, w, n), NEW at \in Nat \ {0}, Leads(w, at),
         w[at] = 237 => at < n, EndOf(w, at) \in at .. n
  PROVE  Decoded(v, at) = Decoded(w, at) /\ Wasted(v, at) = Wasted(w, at)
  <1>0. /\ Len(v) = n /\ Len(w) \in Nat /\ n <= Len(w) /\ at \in 1 .. n
        /\ \A i \in 1 .. n : v[i] = w[i]
    BY DEF Begins
  <1>1. w[at] \in 0 .. 255
    <2>1. at \in 1 .. Len(w) /\ w \in Seq(Byte)
      BY <1>0 DEF Begins
    <2> QED  BY <2>1, ElementOfSeq DEF Byte
  <1>2. v[at] = w[at]
    BY <1>0
  <1>3. IndexOf(v, at) = IndexOf(w, at)
    <2>1. at # 1 => at - 1 \in 1 .. n
      BY <1>0
    <2> QED  BY <1>0, <2>1 DEF IndexOf
  <1>4. Wasted(v, at) = Wasted(w, at)
    BY <1>2 DEF Wasted
  <1>5. CASE w[at] = 237
    <2>1. at + 1 \in 1 .. n /\ at # Len(v) /\ at # Len(w) /\ v[at + 1] = w[at + 1]
      BY <1>0, <1>5
    <2>2. Decoded(v, at) = decodeED(v, at) /\ Decoded(w, at) = decodeED(w, at)
      BY <1>2, <1>5 DEF Decoded
    <2> DEFINE op == w[at + 1]
               form == ExtendedForm(op)
               u == ~EDDocumented(op)
               b == at + 1
    <2>3. op \in 0 .. 255
      <3>1. at + 1 \in 1 .. Len(w) /\ w \in Seq(Byte)
        BY <1>0, <2>1 DEF Begins
      <3> QED  BY <3>1, ElementOfSeq DEF Byte
    <2>4. FormEnd(b, form) <= n
      <3>1. FormEnd(b, form) = at + (IF op \in ExtendedWord THEN 3 ELSE 1)
        BY <2>3, ExtendedEnd
      <3> QED  BY <1>5, <3>1 DEF EndOf
    <2>5. Decoded(v, at) = Read(v, b, form, u) /\ Decoded(w, at) = Read(w, b, form, u)
      BY <2>1, <2>2, DecodedED
    <2> HIDE DEF form, u, b
    <2>6. Read(v, b, form, u) = Read(w, b, form, u)
      <3>1. b \in 1 .. n
        BY <2>1 DEF b
      <3> QED  BY <2>4, <3>1, ReadAgrees
    <2> QED  BY <1>4, <2>5, <2>6
  <1>6. CASE w[at] = 203
    <2> DEFINE slot == IndexOf(w, at) # "none"
               o == at + (IF slot THEN 2 ELSE 1)
    <2>1. Decoded(v, at) = decodeCB(v, at, IndexOf(w, at)) /\ Decoded(w, at) = decodeCB(w, at, IndexOf(w, at))
      BY <1>2, <1>3, <1>6 DEF Decoded
    <2>2. EndOf(w, at) = o
      BY <1>6, IndexOfNone DEF EndOf
    <2>3. o \in 1 .. n /\ ~(o > Len(v)) /\ ~(o > Len(w)) /\ v[o] = w[o]
      BY <1>0, <2>2
    <2>4. slot => v[at + 1] = w[at + 1]
      BY <1>0, <2>3
    <2> DEFINE R(t) == LET op   == t[o]
                           copy == IF Z(op) = 6 \/ X(op) = 1 THEN {} ELSE {rTable[Z(op) + 1]}
                       IN  [Nothing EXCEPT
                              !.length       = o,
                              !.names        = IF slot THEN copy \cup {AtOf[IndexOf(w, at)]}
                                               ELSE {rTable[Z(op) + 1]},
                              !.indexD       = IF slot THEN {Signed(t[at + 1])} ELSE {},
                              !.undocumented = (X(op) = 0 /\ Y(op) = 6) \/ (slot /\ Z(op) # 6)]
    <2>5. decodeCB(v, at, IndexOf(w, at)) = R(v) /\ decodeCB(w, at, IndexOf(w, at)) = R(w)
      BY <2>3 DEF decodeCB
    <2>6. R(v) = R(w)
      <3>1. (IF slot THEN {Signed(v[at + 1])} ELSE {}) = (IF slot THEN {Signed(w[at + 1])} ELSE {})
        BY <2>4
      <3> HIDE DEF slot, o
      <3> QED  BY <2>3, <3>1
    <2> QED  BY <1>4, <2>1, <2>5, <2>6
  <1>7. CASE w[at] # 237 /\ w[at] # 203
    <2> DEFINE idx == IndexOf(w, at)
               form == MainForm(w[at], idx)
               u == idx # "none" /\ ~form.indexed
    <2>1. Decoded(v, at) = Read(v, at, form, u) /\ Decoded(w, at) = Read(w, at, form, u)
      BY <1>2, <1>3, <1>7 DEF Decoded, decodeMain
    <2>2. FormEnd(at, form) <= n
      BY <1>1, <1>7, MainEnd
    <2> HIDE DEF u, idx, form
    <2> QED  BY <1>0, <1>4, <2>1, <2>2, ReadAgrees
  <1> QED  BY <1>5, <1>6, <1>7

LEMMA IndexedOpcode ==
  ASSUME NEW b, b \in Indexed
  PROVE  b \in 0 .. 255 /\ b \notin Prefix /\ b # 237 /\ b # 203
  BY DEF Indexed, Prefix

(* And fewer leave out its annotations, but for a displacement: the zero   *)
(* of a displacement that is missing.                                      *)
DisplacementOf(w, at) ==
  IF at > 1 /\ w[at] \in Indexed THEN {IF at < Len(w) THEN Signed(w[at + 1]) ELSE 0} ELSE {}

LEMMA DecodedShort ==
  ASSUME NEW w \in Seq(Byte), NEW at, Leads(w, at),
         ~(at < Len(w) \/ w[at] # 237) \/ ~(EndOf(w, at) <= Len(w))
  PROVE  /\ Decoded(w, at).rel = {} /\ Decoded(w, at).abs = {}
         /\ Decoded(w, at).indexD = DisplacementOf(w, at)
  <1>0. /\ at \in 1 .. Len(w) /\ at \in Nat \ {0} /\ Len(w) \in Nat /\ w[at] \in 0 .. 255
    <2>1. Len(w) \in Nat /\ at \in 1 .. Len(w)
      BY DEF Leads
    <2> QED  BY <2>1, ElementOfSeq DEF Byte
  <1> DEFINE r == [Nothing EXCEPT !.length = Len(w), !.incomplete = TRUE]
  <1>1. r.rel = {} /\ r.abs = {} /\ r.indexD = {}
    <2>1. ReadingSays(r, Len(w), {}, {}, {}, {}, FALSE)
      BY BlankSays
    <2> QED  BY <2>1 DEF ReadingSays
  <1>6. w[at] \in {203, 237} => DisplacementOf(w, at) = {}
    <2>1. w[at] \in {203, 237} => w[at] \notin Indexed
      BY IndexedOpcode
    <2> QED  BY <2>1, Zenon DEF DisplacementOf
  <1>2. CASE w[at] = 237 /\ at = Len(w)
    <2>1. Decoded(w, at) = r
      BY <1>2 DEF Decoded, decodeED
    <2> QED  BY <1>1, <1>2, <1>6, <2>1
  <1>3. CASE w[at] = 237 /\ at # Len(w)
    <2> DEFINE op == w[at + 1]
               form == ExtendedForm(op)
               u == ~EDDocumented(op)
               b == at + 1
    <2>1. op \in 0 .. 255
      <3>1. at + 1 \in 1 .. Len(w)
        BY <1>0, <1>3
      <3> QED  BY <3>1, ElementOfSeq DEF Byte
    <2>2. Decoded(w, at) = Read(w, b, form, u)
      BY <1>3, DecodedED DEF Decoded
    <2>3. ~(FormEnd(b, form) <= Len(w))
      <3>1. FormEnd(b, form) = at + (IF op \in ExtendedWord THEN 3 ELSE 1)
        BY <1>0, <2>1, ExtendedEnd
      <3>2. at < Len(w)
        BY <1>0, <1>3
      <3> QED  BY <1>3, <3>1, <3>2 DEF EndOf
    <2>4. ~form.disp
      BY ExtendedNoSlot
    <2> HIDE DEF form, u, b
    <2>5. Read(w, b, form, u).indexD = {}
      BY <2>4 DEF Read
    <2> QED  BY <1>3, <1>6, <2>2, <2>3, <2>5, ReadShort
  <1>4. CASE w[at] = 203
    <2> DEFINE idx == IndexOf(w, at)
               o == at + (IF idx # "none" THEN 2 ELSE 1)
    <2>1. Decoded(w, at) = decodeCB(w, at, idx)
      BY <1>4 DEF Decoded
    <2>2. EndOf(w, at) = o
      BY <1>0, <1>4, IndexOfNone DEF EndOf
    <2>3. o > Len(w)
      BY <1>0, <1>4, <2>2
    <2>4. Decoded(w, at) = r
      BY <2>1, <2>3 DEF decodeCB
    <2> QED  BY <1>1, <1>4, <1>6, <2>4
  <1>5. CASE w[at] # 237 /\ w[at] # 203
    <2> DEFINE idx == IndexOf(w, at)
               form == MainForm(w[at], idx)
               u == idx # "none" /\ ~form.indexed
    <2>1. Decoded(w, at) = Read(w, at, form, u)
      BY <1>5 DEF Decoded, decodeMain
    <2>2. ~(FormEnd(at, form) <= Len(w))
      BY <1>0, <1>5, MainEnd
    <2>3. form.disp <=> at > 1 /\ w[at] \in Indexed
      BY <1>0, MainEncoding, IndexOfNone
    <2> HIDE DEF u, idx, form
    <2>4. Read(w, at, form, u).indexD = DisplacementOf(w, at)
      <3>1. at + 1 <= Len(w) <=> at < Len(w)
        BY <1>0
      <3>2. Read(w, at, form, u).indexD
              = IF form.disp THEN {IF at + 1 <= Len(w) THEN Signed(w[at + 1]) ELSE 0} ELSE {}
        BY DEF Read
      <3> QED  BY <2>3, <3>1, <3>2, Zenon DEF DisplacementOf
    <2> QED  BY <2>1, <2>2, <2>4, ReadShort
  <1> QED  BY <1>2, <1>3, <1>4, <1>5

(* How the registers a prefix replaces show. *)
IndexNames(idx) == IF idx = "IX" THEN {"IX", "(IX+d)"} ELSE {"IY", "(IY+d)"}

Replaced == {"HL", "(HL)", "IXH", "IXL", "IYH", "IYL"}

Placed(names, idx) == names \cap IndexNames(idx) # {} /\ names \cap Replaced = {}

LEMMA Registers ==
  ASSUME NEW idx \in {"IX", "IY"}
  PROVE  /\ idx \in IndexNames(idx) /\ AtOf[idx] \in IndexNames(idx)
         /\ idx \notin Replaced /\ AtOf[idx] \notin Replaced
         /\ idx # "none"
  <1>1. CASE idx = "IX"
    BY <1>1 DEF IndexNames, AtOf, Replaced
  <1>2. CASE idx = "IY"
    BY <1>2 DEF IndexNames, AtOf, Replaced
  <1> QED  BY <1>1, <1>2

LEMMA OtherRegisters ==
  /\ \A z \in 0 .. 7 : z # 6 => rTable[z + 1] \notin Replaced
  /\ \A p \in 0 .. 3 : p # 2 => rpTable[p + 1] \notin Replaced /\ rp2Table[p + 1] \notin Replaced
  <1>1. /\ rTable[1] = "B" /\ rTable[2] = "C" /\ rTable[3] = "D" /\ rTable[4] = "E"
        /\ rTable[5] = "H" /\ rTable[6] = "L" /\ rTable[8] = "A"
    BY DEF rTable
  <1>2. /\ rpTable[1] = "BC" /\ rpTable[2] = "DE" /\ rpTable[4] = "SP"
        /\ rp2Table[1] = "BC" /\ rp2Table[2] = "DE" /\ rp2Table[4] = "AF"
    BY DEF rpTable, rp2Table
  <1>3. ASSUME NEW z \in 0 .. 7, z # 6 PROVE rTable[z + 1] \notin Replaced
    <2>1. z + 1 \in {1, 2, 3, 4, 5, 6, 8}
      BY <1>3
    <2> QED  BY <1>1, <2>1 DEF Replaced
  <1>4. ASSUME NEW p \in 0 .. 3, p # 2
        PROVE  rpTable[p + 1] \notin Replaced /\ rp2Table[p + 1] \notin Replaced
    <2>1. p + 1 \in {1, 2, 4}
      BY <1>4
    <2> QED  BY <1>2, <2>1 DEF Replaced
  <1> QED  BY <1>3, <1>4

LEMMA OnePlaced ==
  ASSUME NEW idx \in {"IX", "IY"}
  PROVE  Placed({idx}, idx) /\ Placed({AtOf[idx]}, idx)
  BY Registers DEF Placed

LEMMA TwoPlaced ==
  ASSUME NEW idx \in {"IX", "IY"}, NEW n, n \notin Replaced
  PROVE  /\ Placed({idx, n}, idx) /\ Placed({AtOf[idx], n}, idx) /\ Placed({n, AtOf[idx]}, idx)
  BY Registers DEF Placed

LEMMA Substituted ==
  ASSUME NEW idx \in {"IX", "IY"}
  PROVE  /\ \A keep \in BOOLEAN : rSub(6, idx, keep) = AtOf[idx]
         /\ \A z \in 0 .. 7 : z # 6 => rSub(z, idx, TRUE) = rTable[z + 1]
         /\ HLSub(idx) = idx /\ rpSub(2, idx) = idx /\ rp2Sub(2, idx) = idx
         /\ \A p \in 0 .. 3 : p # 2 => rpSub(p, idx) = rpTable[p + 1]
  <1>1. idx # "none"
    OBVIOUS
  <1>2. \A keep \in BOOLEAN : rSub(6, idx, keep) = AtOf[idx]
    BY <1>1 DEF rSub
  <1>3. \A z \in 0 .. 7 : z # 6 => rSub(z, idx, TRUE) = rTable[z + 1]
    BY <1>1 DEF rSub
  <1>4. HLSub(idx) = idx /\ rpSub(2, idx) = idx /\ rp2Sub(2, idx) = idx
    BY <1>1 DEF HLSub, rpSub, rp2Sub
  <1>5. \A p \in 0 .. 3 : p # 2 => rpSub(p, idx) = rpTable[p + 1]
    BY DEF rpSub
  <1> QED  BY <1>2, <1>3, <1>4, <1>5

LEMMA LoadNames ==
  ASSUME NEW op \in 0 .. 255, NEW idx \in {"IX", "IY"}, X(op) = 1, LoadForm(op, idx).indexed
  PROVE  Placed(LoadForm(op, idx).names, idx)
  <1> DEFINE slot == idx # "none" /\ 6 \in {Y(op), Z(op)}
             dst == rSub(Y(op), idx, Z(op) = 6)
             src == rSub(Z(op), idx, Y(op) = 6)
             names == {dst, src}
  <1>1. op # 118
    BY DEF LoadForm, Form
  <1>2. LoadForm(op, idx) = Form(slot, "-", names, slot)
    BY <1>1 DEF LoadForm
  <1>3. slot /\ LoadForm(op, idx).names = names
    <2>1. LoadForm(op, idx).indexed = slot /\ LoadForm(op, idx).names = names
      <3> HIDE DEF slot, names
      <3> QED  BY <1>2 DEF Form
    <2> QED  BY <2>1
  <1>4. Y(op) \in 0 .. 7 /\ Z(op) \in 0 .. 7 /\ ~(Y(op) = 6 /\ Z(op) = 6)
    BY <1>1, Fields
  <1>5. CASE Y(op) = 6
    <2>1. Z(op) # 6 /\ Z(op) \in 0 .. 7
      BY <1>4, <1>5
    <2>2. dst = AtOf[idx]
      BY <1>5, <2>1, Substituted
    <2>3. src = rTable[Z(op) + 1]
      BY <1>5, <2>1, Substituted
    <2>4. src \notin Replaced
      BY <2>1, <2>3, OtherRegisters
    <2> HIDE DEF src, dst
    <2>5. Placed({AtOf[idx], src}, idx)
      BY <2>4, TwoPlaced
    <2> QED  BY <1>3, <2>2, <2>5
  <1>6. CASE Y(op) # 6
    <2>1. Z(op) = 6 /\ Y(op) \in 0 .. 7
      BY <1>3, <1>4, <1>6
    <2>2. src = AtOf[idx]
      BY <1>6, <2>1, Substituted
    <2>3. dst = rTable[Y(op) + 1]
      BY <1>6, <2>1, Substituted
    <2>4. dst \notin Replaced
      BY <1>6, <2>1, <2>3, OtherRegisters
    <2> HIDE DEF src, dst
    <2>5. Placed({dst, AtOf[idx]}, idx)
      BY <2>4, TwoPlaced
    <2> QED  BY <1>3, <2>2, <2>5
  <1> QED  BY <1>5, <1>6

LEMMA AluNames ==
  ASSUME NEW op \in 0 .. 255, NEW idx \in {"IX", "IY"}, AluForm(op, idx).indexed
  PROVE  Placed(AluForm(op, idx).names, idx)
  <1> DEFINE slot == idx # "none" /\ Z(op) = 6
             names == {rSub(Z(op), idx, FALSE)}
  <1>1. AluForm(op, idx).indexed = slot /\ AluForm(op, idx).names = names
    <2>1. AluForm(op, idx) = Form(slot, "-", names, slot)
      BY DEF AluForm
    <2> HIDE DEF slot, names
    <2> QED  BY <2>1 DEF Form
  <1>2. Z(op) = 6
    BY <1>1
  <1>3. rSub(Z(op), idx, FALSE) = AtOf[idx]
    BY <1>2, Substituted
  <1> QED  BY <1>1, <1>3, OnePlaced

LEMMA WordNames ==
  ASSUME NEW op \in 0 .. 255, NEW idx \in {"IX", "IY"}, X(op) = 0, Z(op) < 4, WordForm(op, idx).indexed
  PROVE  Placed(WordForm(op, idx).names, idx)
  <1>0. Z(op) \in 0 .. 3 /\ P(op) \in 0 .. 3 /\ Q(op) \in 0 .. 1
    BY Fields, Halves
  <1>1. CASE Z(op) = 0
    BY <1>1 DEF WordForm, Form
  <1>2. CASE Z(op) = 1 /\ Q(op) = 0
    <2>1. WordForm(op, idx) = Form(FALSE, "nn", {rpSub(P(op), idx)}, P(op) = 2)
      BY <1>0, <1>2 DEF WordForm
    <2>2. P(op) = 2 /\ WordForm(op, idx).names = {rpSub(P(op), idx)}
      <3> DEFINE slot == P(op) = 2
                 names == {rpSub(P(op), idx)}
      <3>1. WordForm(op, idx).indexed = slot /\ WordForm(op, idx).names = names
        <4>1. WordForm(op, idx) = Form(FALSE, "nn", names, slot)
          BY <2>1
        <4> HIDE DEF slot, names
        <4> QED  BY <4>1 DEF Form
      <3> QED  BY <3>1
    <2> QED  BY <2>2, OnePlaced, Substituted
  <1>3. CASE Z(op) = 1 /\ Q(op) = 1
    <2>1. WordForm(op, idx).names = {rpSub(2, idx), rpSub(P(op), idx)}
      BY <1>0, <1>3 DEF WordForm, Form
    <2>2. rpSub(2, idx) = idx
      BY Substituted
    <2>3. CASE P(op) = 2
      <3>1. WordForm(op, idx).names = {idx}
        BY <2>1, <2>2, <2>3
      <3> QED  BY <3>1, OnePlaced
    <2>4. CASE P(op) # 2
      <3> DEFINE n == rpSub(P(op), idx)
      <3>1. n = rpTable[P(op) + 1]
        BY <1>0, <2>4, Substituted
      <3>2. n \notin Replaced
        BY <1>0, <2>4, <3>1, OtherRegisters
      <3> HIDE DEF n
      <3>3. Placed({idx, n}, idx)
        BY <3>2, TwoPlaced
      <3> QED  BY <2>1, <2>2, <3>3 DEF n
    <2> QED  BY <2>3, <2>4
  <1>4. CASE Z(op) = 2
    <2>1. P(op) = 2
      BY <1>0, <1>4 DEF WordForm, Form
    <2>2. WordForm(op, idx).names = {rpSub(2, idx)}
      BY <1>4, <2>1 DEF WordForm, Form
    <2> QED  BY <2>2, OnePlaced, Substituted
  <1>5. CASE Z(op) = 3
    <2>1. WordForm(op, idx) = Form(FALSE, "-", {rpSub(P(op), idx)}, P(op) = 2)
      BY <1>0, <1>5 DEF WordForm
    <2>2. P(op) = 2 /\ WordForm(op, idx).names = {rpSub(P(op), idx)}
      <3> DEFINE slot == P(op) = 2
                 names == {rpSub(P(op), idx)}
      <3>1. WordForm(op, idx).indexed = slot /\ WordForm(op, idx).names = names
        <4>1. WordForm(op, idx) = Form(FALSE, "-", names, slot)
          BY <2>1
        <4> HIDE DEF slot, names
        <4> QED  BY <4>1 DEF Form
      <3> QED  BY <3>1
    <2> QED  BY <2>2, OnePlaced, Substituted
  <1> QED  BY <1>0, <1>1, <1>2, <1>3, <1>4, <1>5

LEMMA ByteNames ==
  ASSUME NEW op \in 0 .. 255, NEW idx \in {"IX", "IY"}, X(op) = 0, Z(op) >= 4, ByteForm(op, idx).indexed
  PROVE  Placed(ByteForm(op, idx).names, idx)
  <1> DEFINE slot == idx # "none" /\ Y(op) = 6
             names == {rSub(Y(op), idx, FALSE)}
  <1>0. Z(op) \in 4 .. 7
    BY Fields
  <1>1. Z(op) # 7
    BY DEF ByteForm, Form
  <1>2. ByteForm(op, idx).indexed = slot /\ ByteForm(op, idx).names = names
    <2> DEFINE operand == IF Z(op) = 6 THEN "n" ELSE "-"
    <2>1. ByteForm(op, idx) = Form(slot, operand, names, slot)
      <3>1. CASE Z(op) = 4
        BY <3>1 DEF ByteForm
      <3>2. CASE Z(op) = 5
        BY <3>2 DEF ByteForm
      <3>3. CASE Z(op) = 6
        BY <3>3 DEF ByteForm
      <3> QED  BY <1>0, <1>1, <3>1, <3>2, <3>3
    <2> HIDE DEF slot, names, operand
    <2> QED  BY <2>1 DEF Form
  <1>3. Y(op) = 6
    BY <1>2
  <1>4. rSub(Y(op), idx, FALSE) = AtOf[idx]
    BY <1>3, Substituted
  <1> QED  BY <1>2, <1>4, OnePlaced

LEMMA ControlNames ==
  ASSUME NEW op \in 0 .. 255, NEW idx \in {"IX", "IY"}, X(op) = 3, ControlForm(op, idx).indexed
  PROVE  Placed(ControlForm(op, idx).names, idx)
  <1>0. op = 192 + 8 * Y(op) + Z(op) /\ Y(op) \in 0 .. 7 /\ Z(op) \in 0 .. 7
        /\ P(op) \in 0 .. 3 /\ Q(op) \in 0 .. 1 /\ Y(op) = 2 * P(op) + Q(op)
    BY Fields, Halves
  <1>1. HLSub(idx) = idx /\ rp2Sub(2, idx) = idx
    BY Substituted
  <1>2. ControlForm(op, idx).names = {idx}
    <2>1. CASE Z(op) \in {0, 7}
      BY <1>0, <2>1 DEF ControlForm, Form
    <2>2. CASE Z(op) \in {1, 5} /\ Q(op) = 0
      <3> DEFINE slot == P(op) = 2
                 names == {rp2Sub(P(op), idx)}
      <3>1. ControlForm(op, idx) = Form(FALSE, "-", names, slot)
        <4>1. op \notin {195, 205} /\ Z(op) \notin {0, 2, 3, 4, 6, 7} /\ Q(op) # 1
          BY <1>0, <2>2
        <4> QED  BY <2>2, <4>1, Zenon DEF ControlForm
      <3>2. ControlForm(op, idx).indexed = slot /\ ControlForm(op, idx).names = names
        <4> HIDE DEF slot, names
        <4> QED  BY <3>1 DEF Form
      <3> QED  BY <1>1, <3>2
    <2>3. CASE Z(op) = 1 /\ Q(op) = 1
      <3>1. P(op) > 1
        BY <1>0, <2>3 DEF ControlForm, Form
      <3>2. ControlForm(op, idx).names = {HLSub(idx)}
        BY <1>0, <2>3, <3>1 DEF ControlForm, Form
      <3> QED  BY <1>1, <3>2
    <2>4. CASE Z(op) = 3
      <3>1. Y(op) = 4
        BY <1>0, <2>4 DEF ControlForm, Form
      <3>2. ControlForm(op, idx).names = {HLSub(idx)}
        BY <1>0, <2>4, <3>1 DEF ControlForm, Form
      <3> QED  BY <1>1, <3>2
    <2>5. CASE Z(op) \in {2, 4, 6} \/ (Z(op) = 5 /\ Q(op) = 1)
      BY <1>0, <2>5 DEF ControlForm, Form
    <2> QED  BY <1>0, <2>1, <2>2, <2>3, <2>4, <2>5
  <1> QED  BY <1>2, OnePlaced

(* An opcode that is documented under a prefix has places for it, and it   *)
(* shows in all of them.                                                   *)
LEMMA MainNames ==
  ASSUME NEW op \in 0 .. 255, NEW idx \in {"IX", "IY"}, MainForm(op, idx).indexed
  PROVE  Placed(MainForm(op, idx).names, idx)
  <1>0. X(op) \in 0 .. 3 /\ Z(op) \in 0 .. 7
    BY Fields
  <1>1. CASE X(op) = 1
    <2>1. MainForm(op, idx) = LoadForm(op, idx)
      BY <1>1 DEF MainForm
    <2> QED  BY <1>1, <2>1, LoadNames
  <1>2. CASE X(op) = 2
    <2>1. MainForm(op, idx) = AluForm(op, idx)
      BY <1>2 DEF MainForm
    <2> QED  BY <2>1, AluNames
  <1>3. CASE X(op) = 0 /\ Z(op) < 4
    <2>1. MainForm(op, idx) = WordForm(op, idx)
      BY <1>0, <1>3 DEF MainForm
    <2> QED  BY <1>3, <2>1, WordNames
  <1>4. CASE X(op) = 0 /\ Z(op) >= 4
    <2>1. MainForm(op, idx) = ByteForm(op, idx)
      BY <1>0, <1>4 DEF MainForm
    <2> QED  BY <1>4, <2>1, ByteNames
  <1>5. CASE X(op) = 3
    <2>1. MainForm(op, idx) = ControlForm(op, idx)
      BY <1>5 DEF MainForm
    <2> QED  BY <1>5, <2>1, ControlNames
  <1> QED  BY <1>0, <1>1, <1>2, <1>3, <1>4, <1>5

(* What the correction of a reading leaves alone. *)
LEMMA DisassembledFields ==
  ASSUME NEW w \in Seq(Byte), NEW at, Leads(w, at)
  PROVE  /\ disasm(w).length = Decoded(w, at).length
         /\ disasm(w).names = Decoded(w, at).names
         /\ disasm(w).rel = Decoded(w, at).rel
         /\ disasm(w).abs = Decoded(w, at).abs
         /\ disasm(w).indexD = Decoded(w, at).indexD
         /\ ~disasm(w).undocumented => ~Decoded(w, at).undocumented /\ ~Wasted(w, at)
  <1> DEFINE r == Decoded(w, at)
             u == r.undocumented \/ Wasted(w, at)
             d == [r EXCEPT !.undocumented = u]
  <1>1. disasm(w) = d
    BY Disassembled
  <1>2. DOMAIN r = ReadingFields
    BY DecodedLength
  <1>3. /\ d.length = r.length /\ d.names = r.names /\ d.rel = r.rel /\ d.abs = r.abs
        /\ d.indexD = r.indexD /\ d.undocumented = u
    <2> HIDE DEF r, u
    <2> QED  BY <1>2 DEF ReadingFields
  <1> HIDE DEF d, r
  <1>4. ~d.undocumented => ~u
    <2> HIDE DEF u
    <2> QED  BY <1>3
  <1> QED  BY <1>1, <1>3, <1>4 DEF r

(* The displacement of a window that is cut off. *)
LEMMA CutIndexed ==
  ASSUME NEW v \in Seq(Byte), NEW at, Leads(v, at)
  PROVE  CutDisplacement(v) = DisplacementOf(v, at)
  <1>0. /\ at \in Nat \ {0} /\ at <= Len(v) /\ Len(v) \in Nat
        /\ v[at] \notin Prefix /\ \A i \in 1 .. at - 1 : v[i] \in Prefix
    BY DEF Leads
  <1>1. \A i \in IndexedAt(v) : i = at
    <2> SUFFICES ASSUME NEW i \in 2 .. Len(v), v[i] \in Indexed, \A j \in 1 .. i - 1 : v[j] \in Prefix
                 PROVE  i = at
      BY DEF IndexedAt
    <2>1. v[i] \notin Prefix
      BY IndexedOpcode
    <2>2. ~(i < at)
      BY <1>0, <2>1
    <2>3. ~(at < i)
      BY <1>0
    <2> QED  BY <1>0, <2>2, <2>3
  <1>2. at \in IndexedAt(v) <=> at > 1 /\ v[at] \in Indexed
    BY <1>0 DEF IndexedAt
  <1>3. CASE at > 1 /\ v[at] \in Indexed
    <2>1. IndexedAt(v) = {at}
      BY <1>1, <1>2, <1>3
    <2> QED  BY <1>3, <2>1 DEF CutDisplacement, DisplacementOf
  <1>4. CASE ~(at > 1 /\ v[at] \in Indexed)
    <2>1. IndexedAt(v) = {}
      BY <1>1, <1>2, <1>4
    <2> QED  BY <1>4, <2>1 DEF CutDisplacement, DisplacementOf
  <1> QED  BY <1>3, <1>4

(* A window cut off before the end of its instruction. *)
LEMMA CutShort ==
  ASSUME NEW w, Len(w) = 4, NEW at, EndsWithin(w, at, 4),
         NEW n \in 1 .. 4, n < EndOf(w, at), NEW v, Begins(v, w, n)
  PROVE  /\ disasm(v).length = n /\ disasm(v).rel = {} /\ disasm(v).abs = {}
         /\ disasm(v).indexD = CutDisplacement(v)
  <1>0. /\ v \in Seq(Byte) /\ Len(v) = n /\ \A i \in 1 .. n : v[i] = w[i]
        /\ at \in 1 .. 4 /\ w[at] \notin Prefix /\ EndOf(w, at) \in at .. 4
        /\ \A i \in 1 .. at - 1 : w[i] \in Prefix
    BY DEF EndsWithin, Leads, Begins
  <1>1. CASE n < at
    <2>1. {i \in DOMAIN v : v[i] \notin {221, 253}} = {}
      BY <1>0, <1>1 DEF Prefix
    <2> DEFINE r == [Nothing EXCEPT !.length = Len(v)]
    <2>2. disasm(v) = r
      BY <2>1 DEF disasm
    <2>3. ReadingSays(r, Len(v), {}, {}, {}, {}, FALSE)
      BY NothingSays, Corrected
    <2> HIDE DEF r
    <2>4. \A i \in 2 .. Len(v) : v[i] \notin Indexed
      BY <1>0, <1>1, IndexedOpcode
    <2>5. CutDisplacement(v) = {}
      BY <2>4 DEF CutDisplacement, IndexedAt
    <2> QED  BY <1>0, <2>2, <2>3, <2>5 DEF ReadingSays
  <1>2. CASE ~(n < at)
    <2>1. Leads(v, at)
      BY <1>0, <1>2 DEF Leads
    <2>2. v[at] = w[at]
      BY <1>0, <1>2
    <2>3. ~(at < n \/ v[at] # 237) \/ ~(EndOf(v, at) <= n)
      <3> SUFFICES ASSUME at < n \/ v[at] # 237 PROVE ~(EndOf(v, at) <= n)
        OBVIOUS
      <3>1. EndOf(v, at) = EndOf(w, at)
        <4>1. v[at] = 237 => v[at + 1] = w[at + 1]
          BY <1>0, <1>2
        <4> QED  BY <2>2, <4>1 DEF EndOf
      <3> QED  BY <1>0, <3>1
    <2>4. disasm(v).length = n
      <3>1. disasm(v).length =
              IF (at < Len(v) \/ v[at] # 237) /\ EndOf(v, at) <= Len(v) THEN EndOf(v, at) ELSE Len(v)
        BY <1>0, <2>1, DisassembledLength
      <3> QED  BY <1>0, <2>3, <3>1
    <2>5. /\ Decoded(v, at).rel = {} /\ Decoded(v, at).abs = {}
          /\ Decoded(v, at).indexD = DisplacementOf(v, at)
      BY <1>0, <2>1, <2>3, DecodedShort
    <2>6. CutDisplacement(v) = DisplacementOf(v, at)
      BY <1>0, <2>1, CutIndexed
    <2> QED  BY <1>0, <2>1, <2>4, <2>5, <2>6, DisassembledFields
  <1> QED  BY <1>1, <1>2

(* A window cut off after it. *)
LEMMA CutLate ==
  ASSUME NEW w, Len(w) = 4, NEW at, EndsWithin(w, at, 4),
         NEW n \in 1 .. 4, ~(n < EndOf(w, at)), NEW v, Begins(v, w, n)
  PROVE  disasm(v) = disasm(w)
  <1>0. /\ v \in Seq(Byte) /\ w \in Seq(Byte) /\ Len(v) = n /\ \A i \in 1 .. n : v[i] = w[i]
        /\ at \in 1 .. 4 /\ EndOf(w, at) \in at .. 4 /\ (w[at] = 237 => at < 4)
        /\ w[at] \notin Prefix /\ \A i \in 1 .. at - 1 : w[i] \in Prefix
    BY DEF EndsWithin, Leads, Begins
  <1>1. EndOf(w, at) \in at .. n /\ at \in Nat \ {0} /\ n \in Nat
    BY <1>0
  <1>2. w[at] = 237 => at < n
    <2>1. w[at] = 237 => EndOf(w, at) >= at + 1
      BY <1>0 DEF EndOf
    <2> QED  BY <1>1, <2>1
  <1>3. Leads(w, at) /\ Leads(v, at)
    BY <1>0, <1>1 DEF Leads
  <1>4. Decoded(v, at) = Decoded(w, at) /\ Wasted(v, at) = Wasted(w, at)
    BY <1>1, <1>2, <1>3, DecodedAgrees
  <1>5. disasm(v) = [Decoded(v, at) EXCEPT !.undocumented = Decoded(v, at).undocumented \/ Wasted(v, at)]
    BY <1>0, <1>3, Disassembled
  <1>6. disasm(w) = [Decoded(w, at) EXCEPT !.undocumented = Decoded(w, at).undocumented \/ Wasted(w, at)]
    BY <1>0, <1>3, Disassembled
  <1> QED  BY <1>4, <1>5, <1>6

(* An instruction of the prefixed CB table, with its bytes all there.      *)
LEMMA PrefixedBit ==
  ASSUME NEW w, Len(w) = 4, NEW idx, idx # "none"
  PROVE  /\ decodeCB(w, 2, idx).indexD = {Signed(w[3])}
         /\ ~decodeCB(w, 2, idx).undocumented => decodeCB(w, 2, idx).names = {AtOf[idx]}
  <1> DEFINE slot == idx # "none"
             o == 2 + (IF slot THEN 2 ELSE 1)
             op == w[o]
             copy == IF Z(op) = 6 \/ X(op) = 1 THEN {} ELSE {rTable[Z(op) + 1]}
             names == IF slot THEN copy \cup {AtOf[idx]} ELSE {rTable[Z(op) + 1]}
             d == IF slot THEN {Signed(w[2 + 1])} ELSE {}
             u == (X(op) = 0 /\ Y(op) = 6) \/ (slot /\ Z(op) # 6)
             r == [Nothing EXCEPT !.length = o, !.names = names, !.indexD = d, !.undocumented = u]
  <1>1. ~(o > Len(w))
    OBVIOUS
  <1>2. decodeCB(w, 2, idx) = r
    BY <1>1 DEF decodeCB
  <1>3. ReadingSays(r, o, names, {}, {}, d, u)
    <2> HIDE DEF o, names, d, u
    <2> QED  BY BitSays
  <1>4. r.names = names /\ r.indexD = d /\ r.undocumented = u
    <2> HIDE DEF r, names, u, d, o
    <2> QED  BY <1>3 DEF ReadingSays
  <1>5. ~r.undocumented => r.names = {AtOf[idx]}
    <2> SUFFICES ASSUME ~r.undocumented PROVE r.names = {AtOf[idx]}
      OBVIOUS
    <2>1. ~u
      <3> HIDE DEF r, u
      <3> QED  BY <1>4
    <2>2. Z(op) = 6
      <3> HIDE DEF op, r
      <3> QED  BY <2>1
    <2>3. names = {AtOf[idx]}
      BY <2>2
    <2> HIDE DEF r, names
    <2> QED  BY <1>4, <2>3
  <1>6. r.indexD = {Signed(w[3])}
    <2>1. 2 + 1 = 3 /\ slot
      OBVIOUS
    <2> HIDE DEF r
    <2> QED  BY <1>4, <2>1
  <1> HIDE DEF r
  <1> QED  BY <1>2, <1>5, <1>6

LEMMA DisplacementIsThird ==
  ASSUME NEW w \in Seq(Byte), Len(w) = 4, NEW at, EndsWithin(w, at, 4), Displaced(w[1], w[2])
  PROVE  disasm(w).indexD = {Signed(w[3])}
  <1>0. /\ at \in 1 .. 4 /\ w[at] \notin Prefix /\ EndOf(w, at) \in at .. 4
        /\ \A i \in 1 .. at - 1 : w[i] \in Prefix
    BY DEF EndsWithin, Leads
  <1>1. w[1] \in Prefix /\ (w[2] = 203 \/ w[2] \in Indexed) /\ w[2] \notin Prefix /\ w[2] # 237
    <2>1. w[1] \in Prefix /\ (w[2] = 203 \/ w[2] \in Indexed)
      BY Zenon DEF Displaced
    <2>2. CASE w[2] = 203
      BY <2>1, <2>2 DEF Prefix
    <2>3. CASE w[2] \in Indexed
      <3>1. w[2] \notin Prefix /\ w[2] # 237
        BY <2>3, IndexedOpcode
      <3> QED  BY <2>1, <2>3, <3>1
    <2> QED  BY <2>1, <2>2, <2>3, Zenon
  <1>2. at = 2
    BY <1>0, <1>1
  <1> DEFINE idx == IndexOf(w, 2)
  <1>3. idx # "none"
    BY IndexOfNone
  <1>4. Leads(w, 2)
    BY <1>2 DEF EndsWithin
  <1>5. disasm(w).indexD = Decoded(w, 2).indexD
    BY <1>4, DisassembledFields
  <1>6. CASE w[2] = 203
    <2>1. Decoded(w, 2) = decodeCB(w, 2, idx)
      BY <1>6 DEF Decoded
    <2> HIDE DEF idx
    <2> QED  BY <1>3, <1>5, <2>1, PrefixedBit
  <1>7. CASE w[2] \in Indexed
    <2> DEFINE form == MainForm(w[2], idx)
               u == idx # "none" /\ ~form.indexed
    <2>1. w[2] # 203 /\ w[2] \in 0 .. 255
      BY <1>7 DEF Indexed
    <2>2. Decoded(w, 2) = Read(w, 2, form, u)
      BY <1>1, <2>1 DEF Decoded, decodeMain
    <2>3. form.disp
      BY <1>3, <1>7, <2>1, MainEncoding
    <2> HIDE DEF form, u, idx
    <2>4. Read(w, 2, form, u).indexD = {Signed(w[3])}
      BY <2>3 DEF Read
    <2> QED  BY <1>5, <2>2, <2>4
  <1> QED  BY <1>1, <1>6, <1>7

LEMMA PrefixShows ==
  ASSUME NEW w \in Seq(Byte), Len(w) = 4, NEW at, EndsWithin(w, at, 4),
         w[1] \in Prefix, ~disasm(w).undocumented
  PROVE  Placed(disasm(w).names, IF w[1] = 221 THEN "IX" ELSE "IY")
  <1>0. /\ at \in 1 .. 4 /\ w[at] \notin Prefix /\ EndOf(w, at) \in at .. 4 /\ Leads(w, at)
    BY DEF EndsWithin, Leads
  <1>1. disasm(w).names = Decoded(w, at).names /\ ~Decoded(w, at).undocumented /\ ~Wasted(w, at)
    BY <1>0, DisassembledFields
  <1>2. at = 2 /\ w[2] # 237
    BY <1>0, <1>1 DEF Wasted
  <1> DEFINE idx == IndexOf(w, 2)
  <1>3. idx = (IF w[1] = 221 THEN "IX" ELSE "IY")
    BY DEF IndexOf
  <1>4. idx \in {"IX", "IY"} /\ idx # "none"
    BY <1>3
  <1>5. CASE w[2] = 203
    <2>1. Decoded(w, 2) = decodeCB(w, 2, idx)
      BY <1>5 DEF Decoded
    <2> HIDE DEF idx
    <2>2. Decoded(w, 2).names = {AtOf[idx]}
      BY <1>1, <1>2, <1>4, <2>1, PrefixedBit
    <2>3. Placed({AtOf[idx]}, idx)
      BY <1>4, OnePlaced
    <2> QED  BY <1>1, <1>2, <1>3, <2>2, <2>3
  <1>6. CASE w[2] # 203
    <2> DEFINE form == MainForm(w[2], idx)
               u == idx # "none" /\ ~form.indexed
    <2>1. Decoded(w, 2) = Read(w, 2, form, u)
      BY <1>2, <1>6 DEF Decoded, decodeMain
    <2>2. Read(w, 2, form, u).names = form.names /\ Read(w, 2, form, u).undocumented = u
      <3> HIDE DEF form, u
      <3> QED  BY DEF Read
    <2>3. ~u
      <3> HIDE DEF u
      <3> QED  BY <1>1, <1>2, <2>1, <2>2
    <2>4. form.indexed
      <3> HIDE DEF form, idx
      <3> QED  BY <1>4, <2>3
    <2>5. w[2] \in 0 .. 255
      <3>1. 2 \in 1 .. Len(w)
        OBVIOUS
      <3> QED  BY <3>1, ElementOfSeq DEF Byte
    <2> HIDE DEF idx
    <2>6. Placed(form.names, idx)
      BY <1>4, <2>4, <2>5, MainNames
    <2> QED  BY <1>1, <1>2, <1>3, <2>1, <2>2, <2>6
  <1> QED  BY <1>5, <1>6

(* WindowsAreDecoded: what is shown of an instruction that fits comes from *)
(* its own bytes, and is cut short with them, but for a displacement that  *)
(* is missing, which shows as zero; its displacement is the third; and the *)
(* register of a documented prefix is named wherever HL would have been,   *)
(* in every opcode of the table.                                           *)
THEOREM RowsAreDecoded == ViewSpec => []WindowsAreDecoded
  <1>1. VInv => WindowsAreDecoded
    <2> DEFINE w == Window(planes.mem, pc)
               d == disasm(w)
    <2> SUFFICES ASSUME VInv, Fits(planes.mem, pc)
                 PROVE  /\ \A n \in 1 .. 4 :
                             LET v == SubSeq(w, 1, n)
                                 t == disasm(v)
                             IN  IF n >= d.length THEN t = d
                                 ELSE /\ t.length = n /\ t.rel = {} /\ t.abs = {}
                                      /\ t.indexD = CutDisplacement(v)
                        /\ Displaced(w[1], w[2]) => d.indexD = {Signed(w[3])}
                        /\ w[1] \in Prefix /\ ~d.undocumented =>
                             /\ d.names \cap PlaceOf[w[1]] # {}
                             /\ d.names \cap {"HL", "(HL)", "IXH", "IXL", "IYH", "IYL"} = {}
      BY DEF WindowsAreDecoded
    <2>1. planes.mem \in [Addr -> Byte] /\ pc \in Addr
      BY DEF VInv, BusTypes
    <2>2. w = WindowOf(planes.mem, pc, 4)
      BY DEF Window, WindowOf
    <2>3. w \in Seq(Byte) /\ Len(w) = 4
      <3>1. 4 \in Nat
        OBVIOUS
      <3> HIDE DEF w
      <3> QED  BY <2>1, <2>2, <3>1, WindowTypes, Zenon
    <2>4. PICK at \in 1 .. 4 : EndsWithin(w, at, 4) /\ d.length = EndOf(w, at)
      BY <2>1, <2>2, FittingRow
    <2> HIDE DEF w
    <2>5. ASSUME NEW n \in 1 .. 4
          PROVE  LET v == SubSeq(w, 1, n)
                     t == disasm(v)
                 IN  IF n >= d.length THEN t = d
                     ELSE /\ t.length = n /\ t.rel = {} /\ t.abs = {}
                          /\ t.indexD = CutDisplacement(v)
      <3> DEFINE v == SubSeq(w, 1, n)
      <3>1. Begins(v, w, n)
        BY <2>3, FirstBytes
      <3> HIDE DEF v
      <3>2. d.length \in Nat
        BY <2>4 DEF EndsWithin
      <3>3. CASE n >= d.length
        <4>1. ~(n < EndOf(w, at))
          BY <2>4, <3>2, <3>3
        <4>2. disasm(v) = d
          BY <2>3, <2>4, <3>1, <4>1, CutLate
        <4> QED  BY <3>3, <4>2 DEF v
      <3>4. CASE ~(n >= d.length)
        <4>1. n < EndOf(w, at)
          BY <2>4, <3>2, <3>4
        <4>2. /\ disasm(v).length = n /\ disasm(v).rel = {} /\ disasm(v).abs = {}
              /\ disasm(v).indexD = CutDisplacement(v)
          BY <2>3, <2>4, <3>1, <4>1, CutShort
        <4> QED  BY <3>4, <4>2 DEF v
      <3> QED  BY <3>3, <3>4
    <2>6. Displaced(w[1], w[2]) => d.indexD = {Signed(w[3])}
      BY <2>3, <2>4, DisplacementIsThird
    <2>7. ASSUME w[1] \in Prefix, ~d.undocumented
          PROVE  /\ d.names \cap PlaceOf[w[1]] # {}
                 /\ d.names \cap {"HL", "(HL)", "IXH", "IXL", "IYH", "IYL"} = {}
      <3> DEFINE idx == IF w[1] = 221 THEN "IX" ELSE "IY"
      <3>1. Placed(d.names, idx)
        BY <2>3, <2>4, <2>7, PrefixShows
      <3>2. PlaceOf[w[1]] = IndexNames(idx)
        BY <2>7 DEF PlaceOf, IndexNames, Prefix
      <3> HIDE DEF d, idx
      <3> QED  BY <3>1, <3>2 DEF Placed, Replaced
    <2> QED  BY <2>5, <2>6, <2>7
  <1> QED  BY <1>1, ViewsInvariant, PTL
=============================================================================
