------------------------------ MODULE HwTrace -------------------------------
(***************************************************************************)
(* The hardware trace: the ring of bus snapshots (runloop/hwTrace.ts), the *)
(* edge that records into it (boot.tsx), the store's verbs over it         *)
(* (store/index.ts), and the waveform the paused section draws from it     *)
(* (sections/hwTrace).                                                     *)
(*                                                                         *)
(* The ring keeps changes only, in parallel arrays whose floating slots    *)
(* are left stale; a wrapped index and a binary search read it back.  The  *)
(* thirteen control signals of a snapshot are one value, ctl.              *)
(***************************************************************************)
EXTENDS Integers, Sequences

CONSTANTS
  Capacity,   (* slots of the ring                                         *)
  HcMax,      (* bound: the half cycle at which the model stops the clock  *)
  MaxCells,   (* cells the section can show: its widest element            *)
  Samples     (* the bus states that occur                                 *)

Floating == -1        (* undefined: nobody drives the value *)
Word     == Nat \cup {Floating}
Sample   == [ctl : Nat, addr : Word, data : Word]

(* The constructor throws unless capacity & (capacity - 1) is zero. *)
IsPowerOfTwo(n) == \E e \in 0 .. n : n = 2 ^ e

ASSUME HwTraceAssumption ==
  /\ Capacity \in Nat \ {0}
  /\ IsPowerOfTwo(Capacity)
  /\ HcMax \in Nat
  /\ MaxCells \in Nat \ {0}
  /\ Samples \subseteq Sample
  /\ Samples # {}

VARIABLES
  hc,                             (* hcBox[0]                              *)
  bus,                            (* cpu.bus and nNMI after the last edge  *)
  paused,                         (* no frame is in progress or queued     *)
  enabled,                        (* capture                               *)
  hcs, state, addrArr, dataArr,   (* the ring's parallel arrays            *)
  head, tail, size,
  versionSeen,                    (* hwTraceVersion() = hwTrace.version()  *)
  detached,                       (* the section's cursor is not live      *)
  wave                            (* history: the bus after each edge      *)
                                  (* since the clock was last zero         *)

ringVars == <<hcs, state, addrArr, dataArr, head, tail, size>>
vars == <<hc, bus, paused, enabled, ringVars, versionSeen, detached, wave>>

Slot == 0 .. Capacity - 1

(* The low bits of the packed state tell which slots are stale. *)
Packed == [ctl : Nat, addrTri : BOOLEAN, dataTri : BOOLEAN]

TypeOK ==
  /\ hc \in 0 .. HcMax
  /\ bus \in Samples
  /\ paused \in BOOLEAN
  /\ enabled \in BOOLEAN
  /\ hcs \in [Slot -> Nat]
  /\ state \in [Slot -> Packed]
  /\ addrArr \in [Slot -> Nat]
  /\ dataArr \in [Slot -> Nat]
  /\ head \in Slot \cup {-1}
  /\ tail \in Slot
  /\ size \in 0 .. Capacity
  /\ versionSeen \in BOOLEAN
  /\ detached \in BOOLEAN
  /\ wave \in Seq(Samples)

-----------------------------------------------------------------------------
(* Reading the ring. *)

(* i & (capacity - 1) for the indices the code forms, all below twice the  *)
(* capacity.                                                               *)
Wrap(i) == IF i < Capacity THEN i ELSE i - Capacity

(* The slot of the i-th oldest snapshot, from 0. *)
At(i) == Wrap(tail + i)

ReadSnapshot(s) ==
  [ctl  |-> state[s].ctl,
   addr |-> IF state[s].addrTri THEN Floating ELSE addrArr[s],
   data |-> IF state[s].dataTri THEN Floating ELSE dataArr[s]]

(* What latestBefore still has to search: the places from lo on, below hi. *)
Windows == [lo : 0 .. Capacity, hi : 0 .. Capacity]

(* Variant: a snapshot at the half cycle itself counts as before it. *)
FirstNotBelow(h) ==
  LET search[w \in Windows] ==
        IF w.lo >= w.hi THEN w.lo
        ELSE LET mid == (w.lo + w.hi) \div 2
             IN  search[IF hcs[At(mid)] <= h THEN [w EXCEPT !.lo = mid + 1]
                                            ELSE [w EXCEPT !.hi = mid]]
  IN  search[[lo |-> 0, hi |-> size]]

(* latestBefore's search for the oldest snapshot not before h. *)
FirstFrom(h) ==
  LET search[w \in Windows] ==
        IF w.lo >= w.hi THEN w.lo
        ELSE LET mid == (w.lo + w.hi) \div 2
             IN  search[IF hcs[At(mid)] < h THEN [w EXCEPT !.lo = mid + 1]
                                           ELSE [w EXCEPT !.hi = mid]]
  IN  search[[lo |-> 0, hi |-> size]]

(* The slots latestBefore answers from: one, or none. *)
LatestBefore(h) == {At(i) : i \in {j \in 0 .. size - 1 : j = FirstFrom(h) - 1}}

RangeView(lo, hi) == {i \in 0 .. size - 1 : hcs[At(i)] \in lo .. hi}

-----------------------------------------------------------------------------
(* The waveform. *)

Larger(a, b) == IF a >= b THEN a ELSE b

(* Variant: the left edge follows the clock alone, also where nothing was  *)
(* captured.                                                               *)
LeftEdgeOfClock == Larger(1, hc - MaxCells + 1)

(* renderBounds: from the oldest snapshot, as far as the element may go. *)
LeftEdge == Larger(Larger(1, hcs[tail]), hc - MaxCells + 1)

(* buildRowData: of the snapshots in the window, the first and those that  *)
(* differ from the one before them in this signal.                         *)
Transitions(signal) ==
  LET window == RangeView(LeftEdge, hc)
  IN  {i \in window : i - 1 \in window =>
         ReadSnapshot(At(i))[signal] # ReadSnapshot(At(i - 1))[signal]}

Idle == [ctl |-> 1, addr |-> Floating, data |-> Floating]

(* The renderer's carry-forward: the level a row shows in the cell of h.   *)
Level(signal, h) ==
  LET before == {i \in Transitions(signal) : hcs[At(i)] <= h}
      seed   == LatestBefore(LeftEdge)
  IN  IF before # {}
        THEN ReadSnapshot(At(CHOOSE i \in before : \A j \in before : j <= i))[signal]
      ELSE IF seed # {}
        THEN ReadSnapshot(CHOOSE s \in seed : TRUE)[signal]
      ELSE Idle[signal]

-----------------------------------------------------------------------------
Init ==
  /\ hc = 0
  /\ bus \in Samples
  /\ paused = TRUE
  /\ enabled \in BOOLEAN
  /\ hcs = [s \in Slot |-> 0]
  /\ state = [s \in Slot |-> [ctl |-> 0, addrTri |-> FALSE, dataTri |-> FALSE]]
  /\ addrArr = [s \in Slot |-> 0]
  /\ dataArr = [s \in Slot |-> 0]
  /\ head = -1
  /\ tail = 0
  /\ size = 0
  /\ versionSeen = TRUE
  /\ detached = FALSE
  /\ wave = <<>>

(* Variant: the bits of the floating values are not packed. *)
PackWithoutData(b) == [ctl |-> b.ctl, addrTri |-> b.addr = Floating, dataTri |-> FALSE]

Pack(b) == [ctl |-> b.ctl, addrTri |-> b.addr = Floating, dataTri |-> b.data = Floating]

(* Variant: the last value of a floating slot is compared too. *)
UnchangedWithSlots(b) ==
  /\ state[head] = Pack(b)
  /\ addrArr[head] = b.addr
  /\ dataArr[head] = b.data

UnchangedFromHead(b) ==
  /\ state[head] = Pack(b)
  /\ b.addr # Floating => addrArr[head] = b.addr
  /\ b.data # Floating => dataArr[head] = b.data

Store(s, b, now) ==
  /\ hcs' = [hcs EXCEPT ![s] = now]
  /\ state' = [state EXCEPT ![s] = Pack(b)]
  /\ addrArr' = IF b.addr = Floating THEN addrArr ELSE [addrArr EXCEPT ![s] = b.addr]
  /\ dataArr' = IF b.data = Floating THEN dataArr ELSE [dataArr EXCEPT ![s] = b.data]

Advance ==
  /\ head' = Wrap(head + 1)
  /\ size' = IF size < Capacity THEN size + 1 ELSE size
  /\ tail' = IF size < Capacity THEN tail ELSE Wrap(tail + 1)

Record(b, now) ==
  \/ /\ ~enabled
     /\ UNCHANGED <<ringVars, versionSeen>>
  \/ /\ enabled /\ head = -1
     /\ head' = 0
     /\ size' = 1
     /\ UNCHANGED tail
     /\ Store(0, b, now)
     /\ versionSeen' = FALSE
  \/ /\ enabled /\ head # -1 /\ UnchangedFromHead(b)
     /\ UNCHANGED <<ringVars, versionSeen>>
  \/ /\ enabled /\ head # -1 /\ ~UnchangedFromHead(b)
     /\ Advance
     /\ Store(Wrap(head + 1), b, now)
     /\ versionSeen' = FALSE

(* The clock advances before postEdge records, so 0 is never recorded. *)
Edge(b) ==
  /\ ~paused
  /\ hc < HcMax
  /\ hc' = hc + 1
  /\ bus' = b
  /\ Record(b, hc + 1)
  /\ wave' = Append(wave, b)
  /\ UNCHANGED <<paused, enabled, detached>>

(* onTick at the end of every frame, after the pause if the frame paused. *)
FrameEnd(stop) ==
  /\ ~paused
  /\ paused' = stop
  /\ versionSeen' = TRUE
  /\ UNCHANGED <<hc, bus, enabled, ringVars, detached, wave>>

Resume ==
  /\ paused
  /\ paused' = FALSE
  /\ UNCHANGED <<hc, bus, enabled, ringVars, versionSeen, detached, wave>>

Clear ==
  /\ head' = -1
  /\ tail' = 0
  /\ size' = 0
  /\ UNCHANGED <<hcs, state, addrArr, dataArr>>

(* setHwTraceCapture, with the mirror brought along. *)
SetCapture(v) ==
  /\ paused
  /\ enabled' = v
  /\ IF v THEN UNCHANGED <<ringVars, detached>> ELSE Clear /\ detached' = FALSE
  /\ versionSeen' = TRUE
  /\ UNCHANGED <<hc, bus, paused, wave>>

(* onScroll away from the right edge of the window, and back to it or by   *)
(* the snap button.  What the section shows while frames run is what the   *)
(* last pause left, and nothing else reads the cursor then: a scroll in    *)
(* the middle of a run does what it would have done before the run.        *)
Detach ==
  /\ paused
  /\ size > 0 /\ LeftEdge <= hc
  /\ detached' = TRUE
  /\ UNCHANGED <<hc, bus, paused, enabled, ringVars, versionSeen, wave>>

SnapToLive ==
  /\ detached' = FALSE
  /\ UNCHANGED <<hc, bus, paused, enabled, ringVars, versionSeen, wave>>

ZeroHC ==
  /\ paused
  /\ hc' = 0
  /\ wave' = <<>>
  /\ Clear
  /\ versionSeen' = TRUE
  /\ detached' = FALSE
  /\ UNCHANGED <<bus, paused, enabled>>

Next ==
  \/ \E b \in Samples : Edge(b)
  \/ \E stop \in BOOLEAN : FrameEnd(stop)
  \/ Resume
  \/ \E v \in BOOLEAN : SetCapture(v)
  \/ Detach
  \/ SnapToLive
  \/ ZeroHC

Spec == Init /\ [][Next]_vars

-----------------------------------------------------------------------------
(* The snapshots run from tail to head around the ring, at half cycles     *)
(* that strictly ascend and that the clock has reached: what the binary    *)
(* search and the early return of rangeView take for granted, across       *)
(* eviction, capture off and on again, and a zeroed clock.                 *)
RecordsAscend ==
  /\ (head = -1) <=> (size = 0)
  /\ size > 0 => head = At(size - 1)
  /\ \A i \in 0 .. size - 1 : hcs[At(i)] \in 1 .. hc
  /\ \A i \in 0 .. size - 2 : hcs[At(i)] < hcs[At(i + 1)]

(* The last half cycle the i-th snapshot stands for. *)
Until(i) == IF i = size - 1 THEN hc ELSE hcs[At(i + 1)] - 1

(* Every snapshot is what the bus was from its half cycle until the next   *)
(* one's, whether the bus drove its address and data or not.               *)
SnapshotsHold ==
  \A i \in 0 .. size - 1 : \A h \in hcs[At(i)] .. Until(i) :
    ReadSnapshot(At(i)) = wave[h]

(* From the oldest snapshot on, latestBefore tells the bus at every half   *)
(* cycle, whether a snapshot was stored there or not, and reads no stale   *)
(* address or data.                                                        *)
RingTellsTheBus ==
  size > 0 => \A h \in hcs[tail] .. hc :
                \E s \in LatestBefore(h + 1) : ReadSnapshot(s) = wave[h]

(* A paused section has been told of every change of the ring, and a row   *)
(* it draws shows in every cell the level the bus had, also where the      *)
(* window starts later than the ring.                                      *)
RowsShowTheBus ==
  paused /\ size > 0 =>
    /\ versionSeen
    /\ \A signal \in {"ctl", "addr", "data"} : \A h \in LeftEdge .. hc :
         Level(signal, h) = wave[h][signal]

(* A cursor detached from the live edge has snapshots to stand among: its  *)
(* anchor never outlives the ring.                                         *)
DetachedHasCells == detached => size > 0

(* The ring, read from its oldest snapshot to its newest. *)
Changes ==
  [i \in 1 .. size |-> [at |-> hcs[At(i - 1)], value |-> ReadSnapshot(At(i - 1))]]

Log == INSTANCE ChangeLog WITH
         Length <- Capacity, Value <- Samples,
         now <- hc, value <- bus, on <- enabled, log <- Changes

(* The ring is a log of the last Capacity changes of the bus: nothing is   *)
(* stored when nothing changed, and only the oldest is given up.           *)
ImplementsChangeLog == Log!LogSpec
=============================================================================
