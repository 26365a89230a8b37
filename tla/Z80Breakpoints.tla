--------------------------- MODULE Z80Breakpoints ---------------------------
(***************************************************************************)
(* The breakpoints of packages/z80cpu-debug/src/z80breakpoints.ts: ranges  *)
(* of addresses, and one trigger that fires after a number of half cycles  *)
(* and turns the tracer on some time before.  They sit beside the debug    *)
(* context and are called after each of its edges.                         *)
(***************************************************************************)
EXTENDS CpuSteps

CONSTANT NoCallback   (* null *)

VARIABLES
  hc,           (* hcBox[0], the consumer's own counter                    *)
  pcBreaks,     (* _pcBreaks: the ranges [lo, hi] registered               *)
  stepFireHc,   (* _stepFireHc, -1 when nothing is armed                   *)
  stepEnableHc, (* _stepEnableHc, -1 when the tracer needs no turning on   *)
  stepCb        (* _stepCb                                                 *)

triggerVars == <<stepFireHc, stepEnableHc, stepCb>>

BreakpointsTypeOK ==
  /\ hc \in Nat
  /\ pcBreaks \subseteq [lo : Addr, hi : Addr]
  /\ stepFireHc \in Int /\ stepEnableHc \in Int

BreakpointsInit ==
  /\ hc = 0
  /\ pcBreaks = {}
  /\ stepFireHc = -1 /\ stepEnableHc = -1
  /\ stepCb = NoCallback

InRange(a, range) == range.lo <= a /\ a <= range.hi

(* stepHc(n, cb, prefetchHc), which replaces a trigger still armed.  The   *)
(* tracer was `on` when it was called.                                     *)
StepHc(n, cb, prefetchHc, on) ==
  LET enableAt == hc + n - prefetchHc
      now      == enableAt <= hc
  IN  /\ stepFireHc' = hc + n
      /\ stepEnableHc' = IF now THEN -1 ELSE enableAt
      /\ stepCb' = cb
      /\ enabled' = (on \/ now)
      /\ IF enabled' /\ ~(on /\ enabled)
           THEN curr' = FALSE /\ prev' = FALSE
           ELSE UNCHANGED <<curr, prev>>

CancelStepHc ==
  stepCb' = NoCallback /\ stepFireHc' = -1 /\ stepEnableHc' = -1

(* The ranges are looked at where a fetch is about to start. *)
PcMatches == AtM1Entry /\ \E range \in pcBreaks : InRange(pc, range)

StepFires == stepCb # NoCallback /\ hc >= stepFireHc

StepEnables == stepCb # NoCallback /\ stepEnableHc >= 0 /\ hc >= stepEnableHc

(* tickAfterEdge(), whose callbacks set a flag each.                       *)
TickAfterEdge ==
  /\ SetEnabled(enabled \/ PcMatches \/ StepEnables)
  /\ IF StepFires
       THEN stepCb' = NoCallback /\ stepFireHc' = -1
       ELSE UNCHANGED <<stepCb, stepFireHc>>
  /\ stepEnableHc' = IF StepEnables THEN -1 ELSE stepEnableHc
  /\ UNCHANGED <<hc, pcBreaks>>
=============================================================================
