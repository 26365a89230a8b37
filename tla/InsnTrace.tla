----------------------------- MODULE InsnTrace ------------------------------
(***************************************************************************)
(* The instruction trace: the ring of completed instructions with its      *)
(* folding of repeats (store/traceRing.ts), the store's verbs over it      *)
(* (store/index.ts), and the rows the section keeps of it while the loop   *)
(* runs (sections/instructionTrace).                                       *)
(*                                                                         *)
(* The records are a pool that push overwrites in place.  One completion   *)
(* advances the clock by one: the half cycles inside an instruction are    *)
(* left out, only their order is read here.                                *)
(***************************************************************************)
EXTENDS Integers, Sequences

CONSTANTS
  Cap,          (* records of the ring                                     *)
  HcMax,        (* bound: the completions the model lets happen            *)
  InsnBytes,    (* slots of an instruction's byte buffer                   *)
  Insns         (* the traces the debugger hands over: bytes past length   *)
                (* are what an earlier instruction left there              *)

Bytes == [0 .. InsnBytes - 1 -> Nat]
Insn  == [startAddr : Nat, length : 1 .. InsnBytes, bytes : Bytes, m1Type : STRING, nextPc : Nat]

ASSUME InsnTraceAssumption ==
  /\ Cap \in Nat \ {0}
  /\ HcMax \in Nat
  /\ InsnBytes \in Nat \ {0}
  /\ \A i \in Insns : /\ i.length \in 1 .. InsnBytes
                      /\ i.bytes \in Bytes

VARIABLES
  hc,                  (* hcBox[0] when an instruction completes           *)
  paused,              (* no frame is in progress or queued                *)
  traceInstructions,   (* dbg.enabled                                      *)
  captureRaw, collapseRepeatsRaw,
  buf, head, filled,   (* the ring                                         *)
  throttledSeen,       (* traceRingVersionThrottled() = version()          *)
  rows,                (* the section's records memo: slots with counts    *)
  detached,            (* the section's cursor is not live                 *)
  ran,                 (* history: what completed since the ring was empty *)
  shown                (* history: what the rows were when they were built *)

ringVars == <<buf, head, filled>>
vars == <<hc, paused, traceInstructions, captureRaw, collapseRepeatsRaw, ringVars,
          throttledSeen, rows, detached, ran, shown>>

Slot == 0 .. Cap - 1

NextSlot(s) == (s + 1) % Cap

Record == [hc : Nat, insn : Insns, count : Nat, lastHc : Nat]

(* The pool's records before the first push of each. *)
NoInsn == [startAddr |-> 0, length |-> 0, bytes |-> [b \in 0 .. InsnBytes - 1 |-> 0],
           m1Type |-> "normal", nextPc |-> 0]

TypeOK ==
  /\ hc \in 0 .. HcMax
  /\ {paused, traceInstructions, captureRaw, collapseRepeatsRaw, filled} \subseteq BOOLEAN
  /\ {throttledSeen, detached} \subseteq BOOLEAN
  /\ buf \in [Slot -> [hc : 0 .. HcMax, insn : Insns \cup {NoInsn}, count : 1 .. HcMax + 1,
                       lastHc : 0 .. HcMax]]
  /\ head \in Slot
  /\ rows \in Seq([slot : Slot, count : 1 .. HcMax])

-----------------------------------------------------------------------------
(* Reading the ring. *)

Size == IF filled THEN Cap ELSE head

(* The slot at(i) answers from. *)
At(i) == ((IF filled THEN head ELSE 0) + i) % Cap

View == [i \in 1 .. Size |-> buf[At(i - 1)]]

(* What findByHc still has to search, and the best record so far. *)
Windows == [lo : 0 .. Cap, hi : -1 .. Cap - 1, ans : -1 .. Cap - 1]

(* Variant: a record at the half cycle asked for is not counted. *)
FindBelow(target) ==
  LET search[w \in Windows] ==
        IF w.lo > w.hi THEN w.ans
        ELSE LET mid == (w.lo + w.hi) \div 2
             IN  search[IF buf[At(mid)].hc < target
                          THEN [lo |-> mid + 1, hi |-> w.hi, ans |-> mid]
                          ELSE [w EXCEPT !.hi = mid - 1]]
  IN  search[[lo |-> 0, hi |-> Size - 1, ans |-> -1]]

(* findByHc: the index of the record found, -1 for none. *)
FindByHc(target) ==
  LET search[w \in Windows] ==
        IF w.lo > w.hi THEN w.ans
        ELSE LET mid == (w.lo + w.hi) \div 2
             IN  search[IF buf[At(mid)].hc <= target
                          THEN [lo |-> mid + 1, hi |-> w.hi, ans |-> mid]
                          ELSE [w EXCEPT !.hi = mid - 1]]
  IN  search[[lo |-> 0, hi |-> Size - 1, ans |-> -1]]

(* What the section reads of a record: not the slots past its length. *)
ValidBytes(insn) == [b \in 0 .. insn.length - 1 |-> insn.bytes[b]]
Visible(insn)    == <<insn.startAddr, insn.m1Type, insn.length, ValidBytes(insn)>>

(* What a row mounted now would show: the record read through its slot,    *)
(* and the count kept in the row.                                          *)
Contents(rs, pool) ==
  [i \in 1 .. Len(rs) |-> [insn |-> pool[rs[i].slot].insn, hc |-> pool[rs[i].slot].hc,
                           count |-> rs[i].count]]

-----------------------------------------------------------------------------
Init ==
  /\ hc = 0
  /\ paused = TRUE
  /\ traceInstructions \in BOOLEAN
  /\ captureRaw \in BOOLEAN
  /\ collapseRepeatsRaw \in BOOLEAN
  /\ buf = [s \in Slot |-> [hc |-> 0, insn |-> NoInsn, count |-> 1, lastHc |-> 0]]
  /\ head = 0
  /\ filled = FALSE
  /\ throttledSeen = TRUE
  /\ rows = <<>>
  /\ detached = FALSE
  /\ ran = <<>>
  /\ shown = <<>>

SameInsn(src, prev) ==
  /\ src.startAddr = prev.startAddr
  /\ src.length = prev.length
  /\ src.m1Type = prev.m1Type
  /\ \A b \in 0 .. src.length - 1 : src.bytes[b] = prev.bytes[b]

Newest == (head - 1 + Cap) % Cap

Folds(src) == collapseRepeatsRaw /\ Size > 0 /\ SameInsn(src, buf[Newest].insn)

(* Variant: a reused record keeps the count of what it held. *)
AppendKeepingCount(src, now) ==
  /\ buf' = [buf EXCEPT ![head] =
               [hc |-> now, insn |-> src, count |-> buf[head].count, lastHc |-> now]]
  /\ head' = NextSlot(head)
  /\ filled' = (filled \/ head' = 0)

AppendRecord(src, now) ==
  /\ buf' = [buf EXCEPT ![head] = [hc |-> now, insn |-> src, count |-> 1, lastHc |-> now]]
  /\ head' = NextSlot(head)
  /\ filled' = (filled \/ head' = 0)

FoldRecord(now) ==
  /\ buf' = [buf EXCEPT ![Newest].lastHc = now, ![Newest].count = @ + 1]
  /\ UNCHANGED <<head, filled>>

Push(src, now) ==
  IF Folds(src) THEN FoldRecord(now) ELSE AppendRecord(src, now)

(* onInstruction.  Execution goes on where the last instruction led. *)
Complete(src) ==
  /\ ~paused
  /\ traceInstructions
  /\ hc < HcMax
  /\ ran # <<>> => src.startAddr = ran[Len(ran)].insn.nextPc
  /\ hc' = hc + 1
  /\ IF captureRaw
       THEN /\ Push(src, hc')
            /\ throttledSeen' = FALSE
            /\ ran' = Append(ran, [insn |-> src, at |-> hc'])
       ELSE UNCHANGED <<ringVars, throttledSeen, ran>>
  /\ UNCHANGED <<paused, traceInstructions, captureRaw, collapseRepeatsRaw, rows, detached, shown>>

(* Edges that complete nothing the tracer sees. *)
Clock ==
  /\ ~paused
  /\ hc < HcMax
  /\ hc' = hc + 1
  /\ UNCHANGED <<paused, traceInstructions, captureRaw, collapseRepeatsRaw, ringVars,
                 throttledSeen, rows, detached, ran, shown>>

(* The records memo: it is built again when the loop is paused and the     *)
(* throttled version or the status has just been set.                      *)
Rebuild ==
  /\ throttledSeen' = TRUE
  /\ LET n == IF filled' THEN Cap ELSE head'
         slotAt(i) == ((IF filled' THEN head' ELSE 0) + i) % Cap
     IN  rows' = [i \in 1 .. n |-> [slot |-> slotAt(i - 1), count |-> buf'[slotAt(i - 1)].count]]
  /\ shown' = Contents(rows', buf')

(* flushRunState in the middle of a run: the memo returns what it had. *)
Flush ==
  /\ ~paused
  /\ throttledSeen' = TRUE
  /\ UNCHANGED <<hc, paused, traceInstructions, captureRaw, collapseRepeatsRaw, ringVars,
                 rows, detached, ran, shown>>

(* Variant: the rows are not built again when the loop stops. *)
StopKeepingRows ==
  /\ ~paused
  /\ paused' = TRUE
  /\ throttledSeen' = TRUE
  /\ UNCHANGED <<hc, traceInstructions, captureRaw, collapseRepeatsRaw, ringVars, rows,
                 detached, ran, shown>>

(* onPause. *)
Stop ==
  /\ ~paused
  /\ paused' = TRUE
  /\ UNCHANGED <<hc, traceInstructions, captureRaw, collapseRepeatsRaw, ringVars, detached, ran>>
  /\ Rebuild

Resume ==
  /\ paused
  /\ paused' = FALSE
  /\ UNCHANGED <<hc, traceInstructions, captureRaw, collapseRepeatsRaw, ringVars,
                 throttledSeen, rows, detached, ran, shown>>

-----------------------------------------------------------------------------
(* The store's verbs, all of them for a paused loop only. *)

(* clearTraceRingImperative, and what zeroHC does in its place. *)
ClearTraceRing ==
  /\ head' = 0
  /\ filled' = FALSE
  /\ UNCHANGED buf
  /\ detached' = FALSE
  /\ ran' = <<>>
  /\ Rebuild

KeepTraceRing == UNCHANGED <<ringVars, throttledSeen, rows, detached, ran, shown>>

SetCapture(v) ==
  /\ paused
  /\ captureRaw' = v
  /\ IF v THEN KeepTraceRing ELSE ClearTraceRing
  /\ UNCHANGED <<hc, paused, traceInstructions, collapseRepeatsRaw>>

SetCollapseRepeats(v) ==
  /\ paused
  /\ ClearTraceRing
  /\ collapseRepeatsRaw' = v
  /\ UNCHANGED <<hc, paused, traceInstructions, captureRaw>>

SetTraceInstructions(v) ==
  /\ paused
  /\ traceInstructions' = v
  /\ IF ~v /\ captureRaw THEN ClearTraceRing ELSE KeepTraceRing
  /\ captureRaw' = (captureRaw /\ v)
  /\ UNCHANGED <<hc, paused, collapseRepeatsRaw>>

ZeroHC ==
  /\ paused
  /\ hc' = 0
  /\ ClearTraceRing
  /\ UNCHANGED <<paused, traceInstructions, captureRaw, collapseRepeatsRaw>>

(* The section's scroll.  One while frames run does what it would have     *)
(* done before the run.                                                    *)
Detach ==
  /\ paused
  /\ rows # <<>>
  /\ detached' = TRUE
  /\ UNCHANGED <<hc, paused, traceInstructions, captureRaw, collapseRepeatsRaw, ringVars,
                 throttledSeen, rows, ran, shown>>

SnapToLive ==
  /\ detached' = FALSE
  /\ UNCHANGED <<hc, paused, traceInstructions, captureRaw, collapseRepeatsRaw, ringVars,
                 throttledSeen, rows, ran, shown>>

Next ==
  \/ \E src \in Insns : Complete(src)
  \/ Clock
  \/ Flush
  \/ Stop
  \/ Resume
  \/ \E v \in BOOLEAN : SetCapture(v)
  \/ \E v \in BOOLEAN : SetCollapseRepeats(v)
  \/ \E v \in BOOLEAN : SetTraceInstructions(v)
  \/ ZeroHC
  \/ Detach
  \/ SnapToLive

Spec == Init /\ [][Next]_vars

-----------------------------------------------------------------------------
(* The instructions a record stands for are a stretch of what ran, the     *)
(* i-th record's from first[i] on: the records, unfolded, are its latest   *)
(* part, each of them anchored at its first iteration and stamped with its *)
(* last.                                                                   *)
Unfolds(first) ==
  \A i \in 1 .. Size :
    LET next == first[i] + View[i].count
    IN  /\ next = IF i = Size THEN Len(ran) + 1 ELSE first[i + 1]
        /\ ran[first[i]].at = View[i].hc
        /\ ran[next - 1].at = View[i].lastHc
        /\ \A j \in first[i] .. next - 1 : Visible(ran[j].insn) = Visible(View[i].insn)

(* Only the oldest is given up: a ring that is not full holds everything.  *)
NothingLostEarly(first) ==
  Size < Cap => IF Size = 0 THEN ran = <<>> ELSE first[1] = 1

(* While repeats are folded no two neighbours could have been one record,  *)
(* whatever was left past their bytes; while they are not, every record is *)
(* one instruction.                                                        *)
RunsAreMaximal ==
  IF collapseRepeatsRaw
    THEN \A i \in 1 .. Size - 1 : Visible(View[i].insn) # Visible(View[i + 1].insn)
    ELSE \A i \in 1 .. Size : View[i].count = 1

(* The ring is the latest part of what ran, folded as far as it can be,    *)
(* and all of it until the ring is full (TraceRing.push, at, clear).       *)
RingTellsWhatRan ==
  /\ \E first \in [1 .. Size -> 1 .. Len(ran)] : Unfolds(first) /\ NothingLostEarly(first)
  /\ RunsAreMaximal

(* findByHc is the last record that had started by then, across the wrap   *)
(* and across folds.                                                       *)
FindsTheLatest ==
  \A target \in 0 .. HcMax :
    LET started == {i \in 0 .. Size - 1 : View[i + 1].hc <= target}
    IN  FindByHc(target) = IF started = {} THEN -1
                           ELSE CHOOSE i \in started : \A j \in started : j <= i

(* A paused section shows the ring as it is. *)
RowsAreTheRing ==
  paused => /\ throttledSeen
            /\ shown = [i \in 1 .. Size |-> [insn |-> View[i].insn, hc |-> View[i].hc,
                                             count |-> View[i].count]]
            /\ shown = Contents(rows, buf)

(* What sections/instructionTrace/index.tsx:391 says and no run checks,    *)
(* for it fails: the body is frozen during a run, so that a row mounted    *)
(* then, by a scroll, shows what the rows were when they were built.       *)
FrozenRowsStay == Contents(rows, buf) = shown
=============================================================================
