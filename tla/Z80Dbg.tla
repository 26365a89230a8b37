------------------------------- MODULE Z80Dbg -------------------------------
(***************************************************************************)
(* The debug context of packages/z80cpu-debug/src/z80dbg.ts: it looks at   *)
(* the step the CPU is about to take and pieces together, in two buffers,  *)
(* the instructions that the CPU runs.                                     *)
(*                                                                         *)
(* The CPU is external.  It runs an instruction as machine cycles: one or  *)
(* two opcode fetches (M1), then reads of operands, then reads of data,    *)
(* and only the steps the tracer tells apart are kept, one half cycle      *)
(* each.  Writes and internal cycles show only in hasMoreMCycles.  Bytes   *)
(* are what the tracer compares them with: "dd" stands for DD and FD,      *)
(* "op" for any byte that is no prefix.                                    *)
(***************************************************************************)
EXTENDS Naturals, Sequences

CONSTANTS
  Addr,       (* where instructions start                                  *)
  Operands,   (* the operand bytes an instruction may have                 *)
  Data,       (* the data bytes an instruction may read                    *)
  AckByte,    (* what the bus shows while an interrupt is acknowledged     *)
  AckMore,    (* what hasMoreMCycles may say in an acknowledge cycle       *)
  MaxOff      (* bound: the edges in a row that the tracer may miss        *)

Byte   == {"op", "dd", "ed", "cb"}
Prefix == {"dd", "ed", "cb"}

ASSUME Z80DbgAssumption ==
  /\ Addr \subseteq Nat
  /\ \A o \in Operands : o \in Seq(Byte) /\ Len(o) <= 2
  /\ \A d \in Data : d \in Seq(Byte)
  /\ AckByte \subseteq Byte /\ AckMore \subseteq BOOLEAN
  /\ MaxOff \in Nat

VARIABLES
  insn,       (* the instruction in flight                                 *)
  cycle,      (* the machine cycle it is in                                *)
  t,          (* the step of that cycle to be taken next                   *)
  enabled,    (* dbg.enabled                                               *)
  curr,       (* dbg.curr: the trace of the instruction in flight          *)
  prev,       (* dbg.prev: the one before, until it is reported            *)
  inOpRd,     (* _inOpRd                                                   *)
  multicycle, (* _multicycle                                               *)
  track,      (* history: what the trace in flight is about                *)
  edges,      (* history: edges since T3 of the fetch that opened it       *)
  due,        (* history: what the next report has to say                  *)
  stray,      (* history: an operand was announced when there was no trace *)
              (* and no read has come since that there was one             *)
  continues,  (* history: the fetch in progress goes on with the trace     *)
  off         (* history: edges since the tracer was turned off            *)

cpu     == <<insn, cycle, t>>
tracer  == <<curr, prev, inOpRd, multicycle>>
history == <<track, edges, due, stray, continues, off>>
vars    == <<cpu, tracer, enabled, history>>

-----------------------------------------------------------------------------
(* The CPU. *)

Shape(kind, fetch, operands, data, more) ==
  [kind |-> kind, fetch |-> fetch, operands |-> operands, data |-> data, more |-> more]

(* One fetch, or a prefix and another.  ED and CB may be followed by a     *)
(* byte that is a prefix elsewhere, and then nothing follows; DD CB is     *)
(* followed by two operands.  hasMoreMCycles is of interest only where no  *)
(* read follows.                                                           *)
Ordinary ==
  {Shape("normal", f, o, d, FALSE) :
     f \in {<<"op">>, <<"dd", "op">>, <<"ed", "op">>}, o \in Operands, d \in Data}
  \cup {Shape("normal", f, <<>>, <<>>, TRUE) :
          f \in {<<"op">>, <<"dd", "op">>, <<"ed", "op">>, <<"cb", "op">>}}
  \cup {Shape("normal", <<"cb", "op">>, <<>>, d, FALSE) : d \in Data}
  \cup {Shape("normal", <<p, "dd">>, <<>>, <<>>, FALSE) : p \in {"ed", "cb"}}
  \cup {Shape("normal", <<"dd", "cb">>, o, d, FALSE) :
          o \in {x \in Operands : Len(x) = 2}, d \in Data}

(* A DD or FD that the next prefix overrides is an M1 of its own.          *)
Wasted == {Shape("normal", <<"dd">>, <<>>, <<>>, TRUE)}

(* HALT and special reset fetch and discard; interrupts acknowledge.       *)
Idling == {Shape(k, <<b>>, <<>>, <<>>, FALSE) : k \in {"halt", "special_reset"}, b \in {"op", "dd"}}
Acks   == {Shape(k, <<b>>, <<>>, d, m) : k \in {"int", "nmi"}, b \in AckByte, d \in Data, m \in AckMore}

Insn == Ordinary \cup Wasted \cup Idling \cup Acks

(* Nothing comes between a wasted prefix and the prefix that overrides it. *)
Following(i) ==
  IF i \in Wasted THEN Wasted \cup {n \in Ordinary : n.fetch[1] \in {"dd", "ed"}}
                  ELSE Insn

Encoding(i) == i.fetch \o i.operands
Fetches     == Len(insn.fetch)
Cycles      == Len(Encoding(insn)) + Len(insn.data)
IsFetch     == cycle <= Fetches
IsOperand   == ~IsFetch /\ cycle <= Len(Encoding(insn))
BusByte     == (Encoding(insn) \o insn.data)[cycle]
PcOfFetch   == insn.addr + cycle - 1

(* cpu.seq.hasMoreMCycles: cycles follow, be they reads or not.            *)
HasMoreMCycles == cycle < Cycles \/ insn.more

(* cpu.nextStep; the steps of an acknowledge are those of a fetch, and     *)
(* Fresh tells them apart.  Operands and data share RD_T3_1.               *)
NextStep ==
  IF IsFetch THEN <<"M1_T1_0", "M1_T2_0", "M1_T3_0", "M1_T3_1">>[t]
             ELSE <<IF IsOperand THEN "OP_RD_T1_0" ELSE "M_RD_T1_0", "RD_T3_1">>[t]

StepsOfCycle == IF IsFetch THEN 4 ELSE 2

Placed(shapes) ==
  {[addr |-> a, kind |-> s.kind, fetch |-> s.fetch, operands |-> s.operands,
    data |-> s.data, more |-> s.more] : a \in Addr, s \in shapes}

ShapeOf(i) == Shape(i.kind, i.fetch, i.operands, i.data, i.more)

CpuStep ==
  \/ /\ t < StepsOfCycle
     /\ t' = t + 1
     /\ UNCHANGED <<insn, cycle>>
  \/ /\ t = StepsOfCycle /\ cycle < Cycles
     /\ t' = 1 /\ cycle' = cycle + 1
     /\ UNCHANGED insn
  \/ /\ t = StepsOfCycle /\ cycle = Cycles
     /\ t' = 1 /\ cycle' = 1
     /\ insn' \in Placed(Following(ShapeOf(insn)))
-----------------------------------------------------------------------------
(* The tracer. *)

(* InstructionTrace.reset(): a trace of length 0.                          *)
Empty == [startAddr |-> 0, bytes |-> <<>>, m1Type |-> "normal", hc |-> 0, nextPc |-> 0]

(* this.curr.hc++ *)
Ticked(trace) == [trace EXCEPT !.hc = @ + 1]

Begun == [startAddr |-> PcOfFetch, bytes |-> <<BusByte>>, m1Type |-> insn.kind,
          hc |-> 0, nextPc |-> PcOfFetch]

(* The fetched byte continues the prefix that curr holds, and is not a     *)
(* prefix that overrides it.                                               *)
Overrides == curr.bytes[1] = "dd" /\ BusByte \in {"dd", "ed"}

ContinuesChain ==
  /\ insn.kind \notin {"int", "nmi"}
  /\ multicycle
  /\ Len(curr.bytes) = 1
  /\ curr.bytes[1] \in Prefix
  /\ ~Overrides

NoteNextPc ==
  /\ NextStep = "M1_T1_0"
  /\ curr' = Ticked([curr EXCEPT !.nextPc = PcOfFetch])
  /\ UNCHANGED <<prev, inOpRd, multicycle>>

Extend ==
  /\ NextStep = "M1_T3_0" /\ ContinuesChain
  /\ curr' = Ticked([curr EXCEPT !.bytes = Append(@, BusByte)])
  /\ UNCHANGED <<prev, inOpRd, multicycle>>

InitFreshCurr ==
  /\ NextStep = "M1_T3_0" /\ ~ContinuesChain
  /\ prev' = curr
  /\ curr' = Ticked(Begun)
  /\ UNCHANGED <<inOpRd, multicycle>>

ArmOperand ==
  /\ NextStep = "OP_RD_T1_0"
  /\ inOpRd' = TRUE
  /\ curr' = Ticked(curr)
  /\ UNCHANGED <<prev, multicycle>>

(* Variant: operands are not told from data. *)
CapturesAnyRead == Len(curr.bytes) \in 1 .. 3

Captures == inOpRd /\ Len(curr.bytes) \in 1 .. 3

TakeOperand ==
  /\ NextStep = "RD_T3_1"
  /\ IF Captures
       THEN inOpRd' = FALSE /\ curr' = Ticked([curr EXCEPT !.bytes = Append(@, BusByte)])
       ELSE curr' = Ticked(curr) /\ UNCHANGED inOpRd
  /\ UNCHANGED <<prev, multicycle>>

(* onInstructionComplete is called with prev.  The code sets its length to *)
(* 0 and no more; what else is in it is reset before it is used again.     *)
Reports == enabled /\ NextStep = "M1_T3_1" /\ prev.bytes # <<>>

Complete ==
  /\ NextStep = "M1_T3_1"
  /\ multicycle' = HasMoreMCycles
  /\ prev' = Empty
  /\ curr' = Ticked(curr)
  /\ UNCHANGED inOpRd

Ignore ==
  /\ NextStep \in {"M1_T2_0", "M_RD_T1_0"}
  /\ curr' = Ticked(curr)
  /\ UNCHANGED <<prev, inOpRd, multicycle>>

Trace ==
  \/ NoteNextPc \/ Extend \/ InitFreshCurr \/ ArmOperand
  \/ TakeOperand \/ Complete \/ Ignore

-----------------------------------------------------------------------------
(* History, told from the CPU's side.  A trace is about the instruction    *)
(* whose fetch opened it, with two oddities.  One that the fetch of a      *)
(* prefix did not open lacks that byte: the tracer was turned on behind    *)
(* it, or an earlier trace has it.  And the first fetch after an           *)
(* acknowledge cycle goes on with the trace of that cycle, if the bus      *)
(* showed a prefix meanwhile.                                              *)

NoTrack ==
  [held |-> FALSE, addr |-> 0, kind |-> "normal", lead |-> <<>>, skip |-> 0,
   extra |-> <<>>, ack |-> FALSE]

(* lead: bytes of instructions that have ended; skip: how many bytes of    *)
(* insn are not in the trace; extra: a data byte that is.                  *)
Told(trace) ==
  trace.lead \o SubSeq(Encoding(insn), trace.skip + 1, Len(Encoding(insn))) \o trace.extra

Acknowledges(i) == i.kind \in {"int", "nmi"}

(* The fetch goes on with the trace in flight. *)
Belongs ==
  /\ track.held
  /\ IF cycle = 2 THEN track.lead = <<>> /\ track.skip = 0
     ELSE /\ track.ack /\ Len(track.lead) = 1 /\ track.lead[1] \in Prefix
          /\ ~Acknowledges(insn)
          /\ ~(track.lead[1] = "dd" /\ insn.fetch[1] \in {"dd", "ed"})

FetchShows == NextStep = "M1_T3_0"
Opens      == FetchShows /\ ~Belongs

Opened ==
  [NoTrack EXCEPT !.held = TRUE, !.addr = PcOfFetch, !.kind = insn.kind, !.skip = cycle - 1]

(* What the trace that ends here must say: the address of its first fetch, *)
(* its bytes without the data it read, its kind, the half cycles from T3   *)
(* of its fetch to this one, and where this one is fetched.                *)
WholeTrace ==
  [startAddr |-> track.addr,
   bytes     |-> track.lead \o SubSeq(insn.fetch, 1, cycle - 1),
   m1Type    |-> track.kind, hc |-> edges, nextPc |-> PcOfFetch]

Reads      == NextStep = "RD_T3_1" /\ track.held
TakesStray == Reads /\ stray /\ ~IsOperand

Noted == IF TakesStray THEN [track EXCEPT !.extra = <<BusByte>>] ELSE track

InsnEnds == t = StepsOfCycle /\ cycle = Cycles

Closed(trace) ==
  [trace EXCEPT !.lead = Told(trace), !.skip = 0, !.extra = <<>>,
                !.ack = Acknowledges(insn) /\ (insn.data # <<>> \/ insn.more)]

Watch ==
  /\ track' = IF Opens THEN Opened ELSE IF InsnEnds THEN Closed(Noted) ELSE Noted
  /\ edges' = IF Opens THEN 1 ELSE edges + 1
  /\ due' = IF Opens /\ track.held THEN WholeTrace
            ELSE IF NextStep = "M1_T3_1" THEN Empty ELSE due
  /\ stray' = CASE NextStep = "OP_RD_T1_0" -> stray \/ ~track.held
                [] Reads                   -> FALSE
                [] OTHER                   -> stray

NoteContinues ==
  continues' = IF t' = 1 /\ IsFetch' THEN Belongs'
               ELSE IF enabled /\ FetchShows THEN continues /\ track.held
               ELSE continues

(* dbg.clockEdge(): the hooks, then the CPU, then the half cycle.          *)
ClockEdge ==
  /\ enabled \/ off < MaxOff
  /\ CpuStep
  /\ IF enabled THEN Trace /\ Watch /\ UNCHANGED off
                ELSE UNCHANGED <<tracer, track, edges, due, stray>> /\ off' = off + 1
  /\ NoteContinues
  /\ UNCHANGED enabled

(* Variant: turning the tracer on keeps what prev holds. *)
ResetCurrOnly ==
  /\ curr' = Empty
  /\ inOpRd' = FALSE /\ multicycle' = FALSE
  /\ UNCHANGED prev

ResetBuffers ==
  /\ curr' = Empty /\ prev' = Empty
  /\ inOpRd' = FALSE /\ multicycle' = FALSE

(* What happened before is of no interest once the tracer is switched. *)
Forget ==
  /\ track' = NoTrack /\ due' = Empty /\ stray' = FALSE
  /\ edges' = 0 /\ off' = 0
  /\ UNCHANGED continues

(* The setter of enabled. *)
SetEnabled(v) ==
  /\ enabled' = v
  /\ IF v /\ ~enabled THEN ResetBuffers ELSE UNCHANGED tracer
  /\ IF v = enabled THEN UNCHANGED history ELSE Forget
  /\ UNCHANGED cpu

Init ==
  /\ insn \in Placed(Insn) /\ cycle = 1 /\ t = 1
  /\ enabled = TRUE
  /\ curr = Empty /\ prev = Empty
  /\ inOpRd = FALSE /\ multicycle = FALSE
  /\ track = NoTrack /\ due = Empty
  /\ edges = 0 /\ off = 0
  /\ stray = FALSE /\ continues = FALSE

Next == ClockEdge \/ \E v \in BOOLEAN : SetEnabled(v)

Spec == Init /\ [][Next]_vars

-----------------------------------------------------------------------------
(* The longest trace has four bytes, as bytes = new Array(4) promises, and *)
(* every part of the state has its type.                                   *)
TraceType(trace) ==
  /\ trace.bytes \in Seq(Byte) /\ Len(trace.bytes) <= 4
  /\ trace.startAddr \in Nat /\ trace.nextPc \in Nat /\ trace.hc \in Nat
  /\ trace.m1Type \in {"normal", "nmi", "int", "halt", "special_reset"}

TypeOK ==
  /\ cycle \in 1 .. Cycles /\ t \in 1 .. StepsOfCycle
  /\ enabled \in BOOLEAN /\ inOpRd \in BOOLEAN /\ multicycle \in BOOLEAN
  /\ TraceType(curr) /\ TraceType(prev)

(* A report is an instruction that ran, byte for byte, half cycle for half *)
(* cycle, and every instruction gets one, at the first M1_T3_1 after it    *)
(* and never again; with no exception, wherever the tracer was turned on.  *)
(* The two oddities of Belongs are all there are, and of the data read     *)
(* none is in a trace but one byte after a stray operand: behind that, and *)
(* behind the instruction that took the byte of an acknowledge cycle for   *)
(* its own prefix, the reports are exact again (clockEdge, _initFreshCurr).*)
ReportsAreExact ==
  [][enabled /\ edges' # edges =>
       /\ Reports <=> NextStep = "M1_T3_1" /\ due # Empty
       /\ Reports => prev = due]_vars

(* "opRd contributes encoding bytes to the trace (operands), mRd/ioRd do   *)
(* not" (z80dbg.ts:105).                                                   *)
NoDataInTraces ==
  [][edges' # edges /\ NextStep = "RD_T3_1" /\ ~IsOperand => curr'.bytes = curr.bytes]_vars

(* The tracer of the run loop: what CpuSteps keeps of the buffers, being   *)
(* empty or not, moves as these buffers do.  A block is one fetch and the  *)
(* reads that follow it.                                                   *)
BlockPos == IF IsFetch THEN t - 1 ELSE 4 + 2 * (cycle - Fetches - 1) + t - 1
BlockLength == IF cycle < Fetches THEN 4 ELSE 4 + 2 * (Cycles - Fetches)
BlockPc == insn.addr + (IF cycle < Fetches THEN cycle ELSE Fetches) - 1

Cpu == INSTANCE CpuSteps WITH
  Addr     <- Nat,
  BlockLen <- Nat \ (0 .. 3),
  M1T31    <- 3,
  pos      <- BlockPos,
  len      <- BlockLength,
  second   <- continues,
  pc       <- BlockPc,
  nWAIT    <- 1,
  curr     <- curr.bytes # <<>>,
  prev     <- prev.bytes # <<>>

(* Every step is a clock edge or an assignment to enabled of CpuSteps.     *)
ImplementsCpuSteps ==
  Cpu!CpuInit /\ [][Cpu!ClockEdge \/ \E v \in BOOLEAN : Cpu!SetEnabled(v)]_(Cpu!cpuVars)
=============================================================================
