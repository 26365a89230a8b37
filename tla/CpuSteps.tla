------------------------------ MODULE CpuSteps ------------------------------
(***************************************************************************)
(* The CPU core and its debug context as the run loop sees them.           *)
(* @dcorp80/z80cpu is an external package: one clockEdge() advances it by  *)
(* half a clock cycle (an HC).  The loop looks at three things: whether    *)
(* the next step is an M1 entry, the fetch address at that point, and      *)
(* whether this edge called onInstructionComplete, which the debug context *)
(* (z80cpu-debug/src/z80dbg.ts) does at T3 of the NEXT instruction's M1.   *)
(*                                                                         *)
(* A "block" is what one M1 cycle opens: the fetch and the machine cycles  *)
(* that follow it.  An instruction has one block, or two when it starts    *)
(* with a prefix byte; and when a prefix was on the bus in an acknowledge  *)
(* cycle, the trace of that cycle has the block after it as its second.    *)
(* Of the traces only their being empty is kept.                           *)
(***************************************************************************)
EXTENDS Integers

CONSTANTS
  Addr,      (* the addresses the program counter takes                    *)
  BlockLen,  (* the lengths a block may have, in half cycles               *)
  M1T31      (* the half cycle of an M1 called M1_T3_1; T3_0 precedes it   *)

ASSUME AddrAssumption == Addr \subseteq Nat /\ Addr # {}

\* T2 (half cycle 1 here) comes before T3, and T3 before the next M1.
ASSUME BlockAssumption ==
  /\ M1T31 \in Nat /\ M1T31 > 2
  /\ BlockLen \subseteq Nat /\ BlockLen # {}
  /\ \A l \in BlockLen : l > M1T31

VARIABLES
  pos,       (* half cycles already executed in the current block          *)
  len,       (* the length of the current block                            *)
  second,    (* this block continues a trace that the last one started     *)
  pc,        (* the address this block is fetched from                     *)
  nWAIT,     (* the WAIT input pin: 0 holds the CPU in T2                  *)
  enabled,   (* dbg.enabled: the debug context traces instructions         *)
  curr,      (* dbg.curr holds a trace (its length is not 0)               *)
  prev       (* dbg.prev holds a trace that was not reported yet           *)

cpuVars == <<pos, len, second, pc, nWAIT, enabled, curr, prev>>

CpuTypeOK ==
  /\ len \in BlockLen
  /\ pos \in Nat /\ pos < len
  /\ pc \in Addr
  /\ nWAIT \in {0, 1}
  /\ second \in BOOLEAN /\ enabled \in BOOLEAN
  /\ curr \in BOOLEAN /\ prev \in BOOLEAN

CpuInit ==
  /\ pos = 0
  /\ len \in BlockLen
  /\ second = FALSE
  /\ pc \in Addr
  /\ nWAIT = 1
  /\ enabled = TRUE
  /\ curr = FALSE
  /\ prev = FALSE

(* cpu.nextStep is one of the three M1 entries. *)
AtM1Entry == pos = 0

(* T2 of a fetch repeats for as long as WAIT is low. *)
Waiting == nWAIT = 0 /\ pos = 1

(* This edge reports an instruction: M1_T3_1 with a trace in dbg.prev. *)
InstructionCompletes == enabled /\ pos = M1T31 /\ prev

(* The byte after a prefix extends the trace in progress at M1_T3_0; any   *)
(* other M1, or one that finds no trace to extend, promotes it to prev and *)
(* starts a fresh one.                                                     *)
StartsAnew == enabled /\ pos = M1T31 - 1 /\ ~(second /\ curr)

Trace ==
  IF StartsAnew
    THEN prev' = curr /\ curr' = TRUE
    ELSE prev' = (prev /\ ~InstructionCompletes) /\ curr' = curr

(* One half cycle.  The last one of a block opens the next, from any       *)
(* address: jumps and interrupts.  A third M1 never belongs to the same    *)
(* trace; but a block that was to go on with one and found none starts     *)
(* one, and the next may go on with that.                                  *)
ClockEdge ==
  /\ UNCHANGED <<nWAIT, enabled>>
  /\ Trace
  /\ \/ /\ Waiting
        /\ UNCHANGED <<pos, len, second, pc>>
     \/ /\ ~Waiting
        /\ pos + 1 < len
        /\ pos' = pos + 1
        /\ second' = (second /\ ~StartsAnew)
        /\ UNCHANGED <<len, pc>>
     \/ /\ ~Waiting
        /\ pos + 1 = len
        /\ pos' = 0
        /\ len' \in BlockLen
        /\ pc' \in Addr
        /\ second' \in IF second THEN {FALSE} ELSE BOOLEAN

(* Turning the tracer on drops both buffers, so that the instruction in    *)
(* flight is never reported.                                               *)
SetEnabled(v) ==
  /\ enabled' = v
  /\ IF v /\ ~enabled
       THEN curr' = FALSE /\ prev' = FALSE
       ELSE UNCHANGED <<curr, prev>>
  /\ UNCHANGED <<pos, len, second, pc, nWAIT>>
=============================================================================
