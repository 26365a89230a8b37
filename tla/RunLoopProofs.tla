---------------------------- MODULE RunLoopProofs ----------------------------
(***************************************************************************)
(* Theorems about RunLoop, and about StoreRun, the store around it, for    *)
(* every value of their constants.  First the type invariant, one lemma    *)
(* per component and operation; then the invariants of the loop's control, *)
(* of the evaluator, and the refinement; then the store.                   *)
(***************************************************************************)
EXTENDS StoreRun, TLAPS

-----------------------------------------------------------------------------
(* Types. *)

(* The CPU keeps its type at every edge. *)
LEMMA ClockEdgeType == CpuTypeOK /\ ClockEdge => CpuTypeOK'
<1> SUFFICES ASSUME CpuTypeOK, ClockEdge PROVE CpuTypeOK'
  OBVIOUS
<1>1. len' \in BlockLen /\ pos' \in Nat /\ pos' < len' /\ pc' \in Addr /\ nWAIT' \in {0, 1}
  <2>1. CASE UNCHANGED <<pos, len, second, pc>>
    BY <2>1 DEF CpuTypeOK, ClockEdge
  <2>2. CASE pos + 1 < len /\ pos' = pos + 1 /\ UNCHANGED <<len, pc>>
    BY <2>2, BlockAssumption DEF CpuTypeOK, ClockEdge
  <2>3. CASE pos' = 0 /\ len' \in BlockLen /\ pc' \in Addr
    BY <2>3, BlockAssumption DEF CpuTypeOK, ClockEdge
  <2>4. QED
    BY <2>1, <2>2, <2>3 DEF ClockEdge
<1>2. prev' \in BOOLEAN /\ curr' \in BOOLEAN
  BY DEF CpuTypeOK, ClockEdge, Trace, InstructionCompletes
<1>3. second' \in BOOLEAN /\ enabled' \in BOOLEAN
  BY DEF CpuTypeOK, ClockEdge
<1>4. QED
  BY <1>1, <1>2, <1>3 DEF CpuTypeOK

(* The evaluator's state has its type after any list is handed to it. *)
LEMMA SetBreakpointsType ==
  ASSUME NEW l \in [BpId -> Bp \cup {Absent}], BpTypeOK, SetBreakpoints(l)
  PROVE  /\ enabledPc' \subseteq PcRange
         /\ enabledHc' \in [BpId -> Target \cup {Infinity}]
         /\ firedHcIds' \subseteq BpId
         /\ nextHcTarget' \in Target \cup {Infinity}
<1>1. enabledPc' \subseteq PcRange
  <2>1. ASSUME NEW i \in BpId, IsPcBp(l[i]) PROVE l[i].range \in PcRange
    BY <2>1 DEF IsPcBp, Bp, PcBp, HcBp, Absent
  <2>2. QED
    BY <2>1 DEF SetBreakpoints, RangesOf
<1>2. enabledHc' \in [BpId -> Target \cup {Infinity}]
  <2>1. ASSUME NEW i \in BpId, IsHcBp(l[i]) PROVE l[i].target \in Target
    BY <2>1 DEF IsHcBp, Bp, PcBp, HcBp, Absent
  <2>2. QED
    BY <2>1 DEF SetBreakpoints, TargetsOf
<1>3. firedHcIds' \subseteq BpId
  BY DEF SetBreakpoints, StillFired, BpTypeOK
<1>4. nextHcTarget' \in Target \cup {Infinity}
  BY DEF SetBreakpoints, LeastTargets
<1>5. QED
  BY <1>1, <1>2, <1>3, <1>4

(* A patch or a toggle of a well-formed breakpoint is well-formed. *)
LEMMA PatchType ==
  ASSUME NEW b \in Bp, NEW v \in BOOLEAN
  PROVE  [b EXCEPT !.enabled = v] \in Bp
<1>1. CASE b \in PcBp
  BY <1>1 DEF PcBp, Bp
<1>2. CASE b \in HcBp
  BY <1>2 DEF HcBp, Bp
<1>3. QED
  BY <1>1, <1>2 DEF Bp

LEMMA EnabledType == \A b \in Bp : b.enabled \in BOOLEAN
  BY DEF Bp, PcBp, HcBp

(* Whatever the user does to the list, list and evaluator keep their types *)
(* and the evaluator has seen the new list.                                *)
LEMMA EditListType ==
  ASSUME BpTypeOK, EditList
  PROVE  BpTypeOK' /\ SetBreakpoints(bps')
<1>1. PICK i \in BpId : \/ \E b \in BpChoices : AddBreakpoint(i, b) \/ EditBreakpoint(i, b)
                        \/ RemoveBreakpoint(i)
                        \/ ToggleBreakpoint(i)
  BY DEF EditList
<1>2. bps' \in [BpId -> Bp \cup {Absent}] /\ SetBreakpoints(bps')
  <2>1. ASSUME NEW b \in BpChoices, AddBreakpoint(i, b)
        PROVE  bps' \in [BpId -> Bp \cup {Absent}] /\ SetBreakpoints(bps')
    BY <2>1, LoopAssumption DEF AddBreakpoint, BpTypeOK
  <2>2. ASSUME NEW b \in BpChoices, EditBreakpoint(i, b)
        PROVE  bps' \in [BpId -> Bp \cup {Absent}] /\ SetBreakpoints(bps')
    <3>1. b \in Bp /\ bps[i] \in Bp
      BY <2>2, LoopAssumption DEF EditBreakpoint, BpTypeOK
    <3>2. [b EXCEPT !.enabled = bps[i].enabled] \in Bp
      BY <3>1, PatchType, EnabledType
    <3>3. QED
      BY <2>2, <3>2 DEF EditBreakpoint, BpTypeOK
  <2>3. CASE RemoveBreakpoint(i)
    BY <2>3 DEF RemoveBreakpoint, BpTypeOK
  <2>4. CASE ToggleBreakpoint(i)
    <3>1. bps[i] \in Bp
      BY <2>4 DEF ToggleBreakpoint, BpTypeOK
    <3>2. [bps[i] EXCEPT !.enabled = ~bps[i].enabled] \in Bp
      BY <3>1, PatchType, EnabledType
    <3>3. QED
      BY <2>4, <3>2 DEF ToggleBreakpoint, BpTypeOK
  <2>5. QED
    BY <1>1, <2>1, <2>2, <2>3, <2>4
<1>3. QED
  BY <1>2, SetBreakpointsType DEF BpTypeOK

LEMMA CheckAfterEdgeType ==
  ASSUME NEW h \in Hc, BpTypeOK, CheckAfterEdge(h), UNCHANGED bps
  PROVE  BpTypeOK'
<1>1. firedHcIds' \subseteq BpId /\ nextHcTarget' \in Target \cup {Infinity}
  BY DEF CheckAfterEdge, LeastTargets, BpTypeOK
<1>2. QED
  BY <1>1 DEF CheckAfterEdge, BpTypeOK

LEMMA ResetType ==
  ASSUME BpTypeOK, ResetHcCutoff, UNCHANGED bps
  PROVE  BpTypeOK'
<1>1. firedHcIds' \subseteq BpId /\ nextHcTarget' \in Target \cup {Infinity}
  BY DEF ResetHcCutoff, LeastTargets
<1>2. QED
  BY <1>1 DEF ResetHcCutoff, BpTypeOK

(* A hit names a real target: HC never reaches Infinity. *)
LEMMA HitIsTarget ==
  ASSUME NEW h \in Hc, BpTypeOK, HcHit(h)
  PROVE  nextHcTarget \in Target
  BY HcAssumption DEF Hc, BpTypeOK, HcHit, Target, Infinity

LEMMA NextHcType == hc \in Hc => NextHc \in Hc
  BY HcAssumption DEF Hc, NextHc

LEMMA RequestType ==
  ASSUME NEW u \in {"none", "hc", "instruction"}, NEW n \in Nat
  PROVE  Request(u, n) \in [unit : {"none", "hc", "instruction"}, n : Nat,
                            edges : Nat, instructions : Nat]
  BY DEF Request, NoRequest

LEMMA LeaveFrameType ==
  ASSUME LeaveFrame
  PROVE  /\ frameScheduled' \in BOOLEAN
         /\ inFrame' \in BOOLEAN
         /\ edgeBudgetCheck' \in 0 .. (BudgetCheckEvery - 1)
<1>1. frameScheduled' \in BOOLEAN /\ inFrame' \in BOOLEAN
  BY DEF LeaveFrame
<1>2. QED
  BY <1>1, LoopAssumption DEF LeaveFrame

LEMMA EdgeType ==
  ASSUME TypeOK, Edge
  PROVE  TypeOK'
<1>1. CpuTypeOK'
  BY ClockEdgeType DEF TypeOK, Edge
<1>2. NextHc \in Hc
  BY NextHcType DEF TypeOK
<1>3. BpTypeOK'
  BY <1>2, CheckAfterEdgeType DEF TypeOK, Edge
<1>4. hc' \in Hc
  BY <1>2 DEF Edge
<1>5. request' \in [unit : {"none", "hc", "instruction"}, n : Nat,
                    edges : Nat, instructions : Nat]
  <2>1. Counted \in [unit : {"none", "hc", "instruction"}, n : Nat,
                     edges : Nat, instructions : Nat]
    BY DEF TypeOK, Counted
  <2>2. QED
    BY <2>1 DEF Edge
<1>6. stepInstructionsRemaining' \in Nat /\ stepHcRemaining' \in Nat
  BY DEF TypeOK, Edge, FirePause, Decrement
<1>7. BreakReason(NextHc) \in Reasons
  <2>1. CASE HcHit(NextHc)
    BY <2>1, <1>2, HitIsTarget DEF TypeOK, BreakReason, Reasons
  <2>2. CASE ~HcHit(NextHc)
    BY <2>2 DEF BreakReason, Reasons
  <2>3. QED
    BY <2>1, <2>2
<1>8. lastPauseReason' \in Reasons /\ status' \in {"paused", "running", "stepping"}
  BY <1>7 DEF TypeOK, Edge, FirePause, Reasons
<1>9. /\ frameScheduled' \in BOOLEAN
      /\ inFrame' \in BOOLEAN
      /\ edgeBudgetCheck' \in 0 .. (BudgetCheckEvery - 1)
  <2>1. LeaveFrame \/ StayOrLeave
    BY DEF Edge
  <2>2. CASE LeaveFrame
    BY <2>2, LeaveFrameType
  <2>3. CASE StayOrLeave
    <3>1. CASE UNCHANGED <<inFrame, frameScheduled>>
      BY <2>3, <3>1, <2>2, LoopAssumption DEF StayOrLeave, TypeOK
    <3>2. QED
      BY <2>3, <3>1, <2>2 DEF StayOrLeave
  <2>4. QED
    BY <2>1, <2>2, <2>3
<1>10. QED
  BY <1>1, <1>3, <1>4, <1>5, <1>6, <1>8, <1>9 DEF TypeOK

LEMMA VerbType ==
  ASSUME TypeOK, Verb
  PROVE  TypeOK'
<1> USE DEF TypeOK, loopVars, cpuVars, bpVars, evalVars
<1>1. CASE Run
  <2>1. NoRequest \in [unit : {"none", "hc", "instruction"}, n : Nat,
                      edges : Nat, instructions : Nat]
    BY DEF NoRequest
  <2>2. CASE status = "running"
    BY <1>1, <2>2 DEF Run, Reasons, CpuTypeOK, BpTypeOK
  <2>3. CASE status # "running"
    BY <1>1, <2>1, <2>3 DEF Run, Reasons, CpuTypeOK, BpTypeOK
  <2>4. QED
    BY <2>2, <2>3
<1>2. CASE Pause
  BY <1>2 DEF Pause, FirePause, Reasons, CpuTypeOK, BpTypeOK
<1>3. ASSUME NEW n \in StepCounts, StepInstructions(n)
      PROVE  TypeOK'
  BY <1>3, RequestType, LoopAssumption DEF StepInstructions, Reasons, CpuTypeOK, BpTypeOK
<1>4. ASSUME NEW n \in StepCounts, StepHC(n)
      PROVE  TypeOK'
  BY <1>4, RequestType, LoopAssumption DEF StepHC, Reasons, CpuTypeOK, BpTypeOK
<1>5. CASE ZeroHC
  <2>1. BpTypeOK'
    BY <1>5, ResetType DEF ZeroHC
  <2>2. QED
    BY <1>5, <2>1, HcAssumption DEF ZeroHC, CpuTypeOK, Hc
<1>6. CASE EditList
  <2>1. BpTypeOK'
    BY <1>6, EditListType
  <2>2. QED
    BY <1>6, <2>1 DEF EditList, CpuTypeOK
<1>7. CASE SetWaitPin
  BY <1>7 DEF SetWaitPin, CpuTypeOK, BpTypeOK
<1>8. ASSUME NEW v \in BOOLEAN, SetTraceInstructions(v)
      PROVE  TypeOK'
  BY <1>8 DEF SetTraceInstructions, SetEnabled, CpuTypeOK, BpTypeOK
<1>9. QED
  BY <1>1, <1>2, <1>3, <1>4, <1>5, <1>6, <1>7, <1>8 DEF Verb

(* Every variable keeps its type: the evaluator never holds a target that  *)
(* is not one, and HC stays within what a double counts exactly.           *)
THEOREM TypeCorrect == Spec => []TypeOK
<1>1. Init => TypeOK
  <2> SUFFICES ASSUME Init PROVE TypeOK
    OBVIOUS
  <2>1. bps \in [BpId -> Bp \cup {Absent}]
    BY LoopAssumption DEF Init, BpInit, Lists
  <2>2. enabledPc \subseteq PcRange
    <3>1. ASSUME NEW i \in BpId, IsPcBp(bps[i]) PROVE bps[i].range \in PcRange
      BY <2>1, <3>1 DEF IsPcBp, Bp, PcBp, HcBp, Absent
    <3>2. QED
      BY <3>1 DEF Init, BpInit, RangesOf
  <2>3. enabledHc \in [BpId -> Target \cup {Infinity}]
    <3>1. ASSUME NEW i \in BpId, IsHcBp(bps[i]) PROVE bps[i].target \in Target
      BY <2>1, <3>1 DEF IsHcBp, Bp, PcBp, HcBp, Absent
    <3>2. QED
      BY <3>1 DEF Init, BpInit, TargetsOf
  <2>4. BpTypeOK
    BY <2>1, <2>2, <2>3 DEF Init, BpInit, BpTypeOK, LeastTargets
  <2>5. CpuTypeOK
    <3>1. len \in BlockLen /\ pos \in Nat /\ pos < len
      BY BlockAssumption DEF Init, CpuInit
    <3>2. QED
      BY <3>1 DEF Init, CpuInit, CpuTypeOK
  <2>6. QED
    <3>1. hc \in Hc /\ edgeBudgetCheck \in 0 .. (BudgetCheckEvery - 1)
      BY HcAssumption, LoopAssumption DEF Init, Hc
    <3>2. request \in [unit : {"none", "hc", "instruction"}, n : Nat,
                      edges : Nat, instructions : Nat]
      BY DEF Init, NoRequest
    <3>3. QED
      BY <2>4, <2>5, <3>1, <3>2 DEF Init, TypeOK, Reasons
<1>2. TypeOK /\ [Next]_vars => TypeOK'
  <2> SUFFICES ASSUME TypeOK, [Next]_vars PROVE TypeOK'
    OBVIOUS
  <2>1. CASE Verb
    BY <2>1, VerbType
  <2>2. CASE FrameStart
    <3>1. inFrame' \in BOOLEAN /\ frameScheduled' \in BOOLEAN
      BY <2>2 DEF FrameStart
    <3>2. edgeBudgetCheck' \in 0 .. (BudgetCheckEvery - 1)
      BY <2>2, LoopAssumption DEF FrameStart
    <3>3. QED
      BY <2>2, <3>1, <3>2
      DEF FrameStart, TypeOK, CpuTypeOK, BpTypeOK, cpuVars, bpVars, evalVars
  <2>3. CASE Edge
    BY <2>3, EdgeType
  <2>4. CASE UNCHANGED vars
    BY <2>4 DEF vars, TypeOK, CpuTypeOK, BpTypeOK, cpuVars, bpVars, evalVars, loopVars
  <2>5. QED
    BY <2>1, <2>2, <2>3, <2>4 DEF Next
<1>3. QED
  BY <1>1, <1>2, PTL DEF Spec

-----------------------------------------------------------------------------
(* The loop's control.  OneStepCounter and StepIsExact are not inductive:  *)
(* they need that the counter that counts is the one of the request's      *)
(* unit, and that a running loop has no request.                           *)

StepInv ==
  /\ OneStepCounter
  /\ status = "running" => request.unit = "none"
  /\ status = "stepping" =>
       \/ /\ request.unit = "hc"
          /\ stepInstructionsRemaining = 0
          /\ stepHcRemaining + request.edges = request.n
       \/ /\ request.unit = "instruction"
          /\ stepHcRemaining = 0
          /\ stepInstructionsRemaining + request.instructions = request.n
  /\ (status = "paused" /\ request.unit # "none" /\ lastPauseReason # UserPause)
       => Executed = request.n

LEMMA EdgeStepInv ==
  ASSUME TypeOK, StepInv, OneFrame, Edge
  PROVE  StepInv'
<1> USE DEF TypeOK
<1>1. request' = Counted /\ status # "paused" /\ status \in {"running", "stepping"}
  BY DEF Edge, OneFrame
<1>2. CASE status = "running"
  <2>1. request' = request /\ request.unit = "none"
    BY <1>1, <1>2 DEF StepInv, Counted
  <2>2. stepInstructionsRemaining' = 0 /\ stepHcRemaining' = 0
    BY <1>2 DEF Edge, StepInv, OneStepCounter, FirePause, Decrement
  <2>3. status' \in {"running", "paused"}
    BY <1>2 DEF Edge, FirePause
  <2>4. QED
    BY <2>1, <2>2, <2>3 DEF StepInv, OneStepCounter
<1>3. CASE status = "stepping" /\ request.unit = "hc"
  <2>1. /\ stepInstructionsRemaining = 0 /\ stepHcRemaining > 0
        /\ stepHcRemaining + request.edges = request.n
    BY <1>3 DEF StepInv, OneStepCounter
  <2>2. /\ request'.unit = "hc" /\ request'.n = request.n
        /\ request'.edges = request.edges + 1
    BY <1>1, <1>3 DEF Counted
  <2>3. CASE status' = "stepping"
    <3>1. stepHcRemaining' = stepHcRemaining - 1 /\ stepInstructionsRemaining' = 0
      BY <2>1, <2>3, <1>3 DEF Edge, FirePause, Decrement
    <3>2. stepHcRemaining' > 0
      BY <3>1, <2>1, <2>3, <1>3 DEF Edge, FirePause, Decrement
    <3>3. QED
      BY <2>1, <2>2, <2>3, <3>1, <3>2 DEF StepInv, OneStepCounter
  <2>4. CASE status' # "stepping"
    <3>1. /\ status' = "paused" /\ lastPauseReason' = StepComplete
          /\ stepHcRemaining' = 0 /\ stepInstructionsRemaining' = 0
          /\ stepHcRemaining - 1 <= 0
      BY <2>1, <2>4, <1>3 DEF Edge, FirePause, Decrement
    <3>2. Executed' = request'.n
      BY <2>1, <2>2, <3>1 DEF Executed
    <3>3. QED
      BY <3>1, <3>2 DEF StepInv, OneStepCounter
  <2>5. QED
    BY <2>3, <2>4
<1>4. CASE status = "stepping" /\ request.unit = "instruction"
  <2> DEFINE more == IF InstructionCompletes THEN 1 ELSE 0
  <2>1. /\ stepHcRemaining = 0 /\ stepInstructionsRemaining > 0
        /\ stepInstructionsRemaining + request.instructions = request.n
    BY <1>4 DEF StepInv, OneStepCounter
  <2>2. /\ request'.unit = "instruction" /\ request'.n = request.n
        /\ request'.instructions = request.instructions + more
    BY <1>1, <1>4 DEF Counted
  <2>3. CASE status' = "stepping"
    <3>1. stepInstructionsRemaining' = stepInstructionsRemaining - more /\ stepHcRemaining' = 0
      BY <2>1, <2>3, <1>4 DEF Edge, FirePause, Decrement
    <3>2. stepInstructionsRemaining' > 0
      BY <3>1, <2>1, <2>3, <1>4 DEF Edge, FirePause, Decrement
    <3>3. QED
      BY <2>1, <2>2, <2>3, <3>1, <3>2 DEF StepInv, OneStepCounter
  <2>4. CASE status' # "stepping"
    <3>1. /\ status' = "paused" /\ lastPauseReason' = StepComplete
          /\ stepHcRemaining' = 0 /\ stepInstructionsRemaining' = 0
          /\ stepInstructionsRemaining - more <= 0
      BY <2>1, <2>4, <1>4 DEF Edge, FirePause, Decrement
    <3>2. Executed' = request'.n
      BY <2>1, <2>2, <3>1 DEF Executed
    <3>3. QED
      BY <3>1, <3>2 DEF StepInv, OneStepCounter
  <2>5. QED
    BY <2>3, <2>4
<1>5. QED
  BY <1>1, <1>2, <1>3, <1>4 DEF StepInv

LEMMA VerbStepInv ==
  ASSUME TypeOK, StepInv, Verb
  PROVE  StepInv'
<1> USE DEF TypeOK
<1>1. CASE Run
  BY <1>1 DEF Run, StepInv, OneStepCounter, NoRequest
<1>2. CASE Pause
  BY <1>2 DEF Pause, FirePause, StepInv, OneStepCounter
<1>3. ASSUME NEW n \in StepCounts, StepInstructions(n)
      PROVE  StepInv'
  <2>1. n \in Nat /\ n > 0
    BY LoopAssumption
  <2>2. request' = [unit |-> "instruction", n |-> n, edges |-> 0, instructions |-> 0]
    BY <1>3 DEF StepInstructions, Request, NoRequest
  <2>3. QED
    BY <1>3, <2>1, <2>2 DEF StepInstructions, StepInv, OneStepCounter
<1>4. ASSUME NEW n \in StepCounts, StepHC(n)
      PROVE  StepInv'
  <2>1. n \in Nat /\ n > 0
    BY LoopAssumption
  <2>2. request' = [unit |-> "hc", n |-> n, edges |-> 0, instructions |-> 0]
    BY <1>4 DEF StepHC, Request, NoRequest
  <2>3. QED
    BY <1>4, <2>1, <2>2 DEF StepHC, StepInv, OneStepCounter
<1>5. CASE UNCHANGED <<loopVars, lastPauseReason, request>>
  BY <1>5 DEF loopVars, StepInv, OneStepCounter, Executed
<1>6. QED
  BY <1>1, <1>2, <1>3, <1>4, <1>5
  DEF Verb, ZeroHC, EditList, SetWaitPin, SetTraceInstructions

LEMMA OneFrameStep == TypeOK /\ OneFrame /\ [Next]_vars => OneFrame'
<1> SUFFICES ASSUME TypeOK, OneFrame, [Next]_vars PROVE OneFrame'
  OBVIOUS
<1>1. CASE Verb
  <2>1. CASE UNCHANGED loopVars
    BY <2>1 DEF loopVars, OneFrame
  <2>2. ~inFrame /\ ~inFrame'
    BY <1>1 DEF Verb, Run, Pause, StepInstructions, StepHC, ZeroHC, EditList,
                SetWaitPin, SetTraceInstructions, loopVars
  <2>3. CASE Run
    BY <2>2, <2>3 DEF Run, OneFrame
  <2>4. CASE Pause
    BY <2>2, <2>4 DEF Pause, FirePause, OneFrame
  <2>5. ASSUME NEW n \in StepCounts, StepInstructions(n) \/ StepHC(n)
        PROVE  OneFrame'
    BY <2>2, <2>5 DEF StepInstructions, StepHC, OneFrame
  <2>6. QED
    BY <1>1, <2>1, <2>3, <2>4, <2>5
    DEF Verb, ZeroHC, EditList, SetWaitPin, SetTraceInstructions
<1>2. CASE FrameStart
  BY <1>2 DEF FrameStart, OneFrame
<1>3. CASE Edge
  <2>1. status # "paused" /\ inFrame /\ ~frameScheduled
    BY <1>3 DEF Edge, OneFrame
  <2>2. CASE LeaveFrame
    BY <2>2 DEF LeaveFrame, OneFrame
  <2>3. CASE UNCHANGED <<inFrame, frameScheduled, status>>
    BY <2>3 DEF OneFrame
  <2>4. QED
    BY <1>3, <2>1, <2>2, <2>3 DEF Edge, StayOrLeave
<1>4. CASE UNCHANGED vars
  BY <1>4 DEF vars, loopVars, OneFrame
<1>5. QED
  BY <1>1, <1>2, <1>3, <1>4 DEF Next

LEMMA StepInvStep == TypeOK /\ OneFrame /\ StepInv /\ [Next]_vars => StepInv'
<1> SUFFICES ASSUME TypeOK, OneFrame, StepInv, [Next]_vars PROVE StepInv'
  OBVIOUS
<1>1. CASE FrameStart
  BY <1>1 DEF FrameStart, StepInv, OneStepCounter, Executed
<1>2. CASE UNCHANGED vars
  BY <1>2 DEF vars, loopVars, StepInv, OneStepCounter, Executed
<1>3. QED
  BY <1>1, <1>2, EdgeStepInv, VerbStepInv DEF Next

(* In every behaviour a loop that is not paused has exactly one frame      *)
(* queued or executing.                                                    *)
THEOREM FramesAreSingle == Spec => []OneFrame
<1>1. Init => OneFrame
  BY DEF Init, OneFrame
<1>2. QED
  BY <1>1, OneFrameStep, TypeCorrect, PTL DEF Spec

(* In every behaviour a step executes exactly what was asked for, however  *)
(* runs, pauses, frames and breakpoints interleave, and no counter of it   *)
(* outlives it.                                                            *)
THEOREM StepsAreExact == Spec => [](OneStepCounter /\ StepIsExact)
<1>1. Init => StepInv
  BY DEF Init, StepInv, OneStepCounter, NoRequest
<1>2. TypeOK /\ StepInv => OneStepCounter /\ StepIsExact
  BY DEF TypeOK, StepInv, OneStepCounter, StepIsExact, Executed
<1>3. QED
  BY <1>1, <1>2, StepInvStep, FramesAreSingle, TypeCorrect, PTL DEF Spec

-----------------------------------------------------------------------------
(* The evaluator.  The inductive invariant says that the cache is the      *)
(* least target of the ids that have not fired, and that derived state     *)
(* follows the list.                                                       *)

CacheIsFresh == nextHcTarget \in LeastTargets(enabledHc, firedHcIds)

EvalInv == CacheIsFresh /\ QuietMeansReached

LEMMA TargetsMeaning ==
  ASSUME BpTypeOK, enabledHc = TargetsOf(bps)
  PROVE  \A i \in BpId :
           /\ IsHcBp(bps[i]) /\ bps[i].enabled => /\ enabledHc[i] = bps[i].target
                                                 /\ bps[i].target \in Target
                                                 /\ enabledHc[i] # Infinity
           /\ enabledHc[i] # Infinity => IsHcBp(bps[i]) /\ bps[i].enabled
<1>1. ASSUME NEW i \in BpId, IsHcBp(bps[i]) PROVE bps[i].target \in Target
  BY <1>1 DEF BpTypeOK, IsHcBp, Bp, PcBp, HcBp, Absent
<1>2. \A t \in Target : t # Infinity
  BY HcAssumption DEF Target, Infinity
<1>3. QED
  BY <1>1, <1>2 DEF TargetsOf

LEMMA CacheMeaning ==
  ASSUME BpTypeOK, CacheIsFresh
  PROVE  NextTargetIsLeastArmed
  BY DEF CacheIsFresh, LeastTargets, NextTargetIsLeastArmed, Armed, BpTypeOK

LEMMA EditListEvalInv ==
  ASSUME TypeOK, EvalInv, EditList
  PROVE  EvalInv'
<1>1. BpTypeOK' /\ SetBreakpoints(bps') /\ BpTypeOK
  BY EditListType DEF TypeOK
<1>2. CacheIsFresh'
  BY <1>1 DEF SetBreakpoints, CacheIsFresh
<1>3. enabledPc' = RangesOf(bps)' /\ enabledHc' = TargetsOf(bps)' /\ hc' = hc
  BY <1>1 DEF SetBreakpoints, EditList, RangesOf, TargetsOf
<1>4. ASSUME NEW i \in firedHcIds'
      PROVE  IsHcBp(bps'[i]) /\ (bps'[i].enabled => bps'[i].target <= hc')
  <2>1. /\ i \in firedHcIds /\ IsHcBp(bps'[i])
        /\ bps'[i].enabled => enabledHc[i] = bps'[i].target
    BY <1>1, <1>4 DEF SetBreakpoints, StillFired
  <2>2. SUFFICES ASSUME bps'[i].enabled PROVE bps'[i].target <= hc'
    BY <2>1
  <2>3. i \in BpId /\ enabledHc[i] # Infinity
    <3>1. i \in BpId
      BY <2>1 DEF TypeOK, BpTypeOK
    <3>2. bps'[i].target \in Target /\ \A t \in Target : t # Infinity
      BY <1>1, <2>1, <3>1, HcAssumption
      DEF BpTypeOK, IsHcBp, Bp, PcBp, HcBp, Absent, Target, Infinity
    <3>3. QED
      BY <2>1, <2>2, <3>1, <3>2
  <2>4. bps[i].enabled /\ IsHcBp(bps[i]) /\ enabledHc[i] = bps[i].target
    BY <1>1, <2>3, TargetsMeaning DEF EvalInv, QuietMeansReached
  <2>5. bps[i].target <= hc
    BY <2>1, <2>4 DEF EvalInv, QuietMeansReached
  <2>6. QED
    BY <1>3, <2>1, <2>2, <2>4, <2>5
<1>5. QED
  BY <1>2, <1>3, <1>4 DEF EvalInv, QuietMeansReached, IsHcBp

LEMMA EdgeEvalInv ==
  ASSUME TypeOK, EvalInv, Edge
  PROVE  EvalInv'
<1>1. /\ NextHc \in Hc /\ hc' = NextHc /\ hc' >= hc /\ hc \in Hc
      /\ bps' = bps /\ CheckAfterEdge(NextHc) /\ BpTypeOK
  BY NextHcType, HcAssumption DEF TypeOK, Edge, NextHc, Hc
<1>2. CacheIsFresh'
  BY <1>1 DEF CheckAfterEdge, CacheIsFresh, EvalInv
<1>3. enabledPc' = RangesOf(bps)' /\ enabledHc' = TargetsOf(bps)'
  BY <1>1 DEF CheckAfterEdge, EvalInv, QuietMeansReached, RangesOf, TargetsOf
<1>4. ASSUME NEW i \in firedHcIds'
      PROVE  IsHcBp(bps'[i]) /\ (bps'[i].enabled => bps'[i].target <= hc')
  <2>1. CASE i \in firedHcIds
    <3>1. IsHcBp(bps[i]) /\ (bps[i].enabled => bps[i].target <= hc)
      BY <2>1 DEF EvalInv, QuietMeansReached
    <3>2. bps[i] \in HcBp
      BY <3>1, <2>1 DEF TypeOK, BpTypeOK, IsHcBp, Bp, PcBp, HcBp, Absent
    <3>3. bps[i].target \in Int /\ hc \in Int /\ hc' \in Int
      BY <3>2, <1>1, HcAssumption DEF HcBp, Target, Hc
    <3>4. QED
      BY <1>1, <3>1, <3>3
  <2>2. CASE i \notin firedHcIds
    <3>1. HcHit(NextHc) /\ i \in BpId /\ enabledHc[i] = nextHcTarget
      BY <1>1, <1>4, <2>2 DEF CheckAfterEdge
    <3>2. nextHcTarget \in Target /\ nextHcTarget # Infinity
      BY <1>1, <3>1, HitIsTarget, HcAssumption DEF Target, Infinity
    <3>3. IsHcBp(bps[i]) /\ bps[i].target = nextHcTarget
      BY <1>1, <3>1, <3>2, TargetsMeaning DEF EvalInv, QuietMeansReached
    <3>4. nextHcTarget <= NextHc
      BY <1>1, <3>1, <3>2, HcAssumption DEF HcHit, Target, Hc
    <3>5. QED
      BY <1>1, <3>3, <3>4
  <2>3. QED
    BY <2>1, <2>2
<1>5. QED
  BY <1>2, <1>3, <1>4 DEF EvalInv, QuietMeansReached, IsHcBp

LEMMA EvalInvStep == TypeOK /\ EvalInv /\ [Next]_vars => EvalInv'
<1> SUFFICES ASSUME TypeOK, EvalInv, [Next]_vars PROVE EvalInv'
  OBVIOUS
<1>1. CASE EditList
  BY <1>1, EditListEvalInv
<1>2. CASE Edge
  BY <1>2, EdgeEvalInv
<1>3. CASE ZeroHC
  BY <1>3
  DEF ZeroHC, ResetHcCutoff, EvalInv, CacheIsFresh, QuietMeansReached, RangesOf, TargetsOf
<1>4. CASE UNCHANGED <<bpVars, hc>>
  BY <1>4
  DEF bpVars, evalVars, EvalInv, CacheIsFresh, QuietMeansReached, RangesOf, TargetsOf, LeastTargets
<1>5. QED
  BY <1>1, <1>2, <1>3, <1>4
  DEF Next, Verb, Run, Pause, StepInstructions, StepHC, SetWaitPin, SetTraceInstructions,
      FrameStart, vars

LEMMA EvalInvHolds == Spec => []EvalInv
<1>1. Init => EvalInv
  BY DEF Init, BpInit, EvalInv, CacheIsFresh, QuietMeansReached
<1>2. QED
  BY <1>1, EvalInvStep, TypeCorrect, PTL DEF Spec

(* The one number an edge is compared with always stands for the whole     *)
(* list of targets that may fire.                                          *)
THEOREM NextTargetIsExact == Spec => []NextTargetIsLeastArmed
<1>1. TypeOK /\ EvalInv => NextTargetIsLeastArmed
  BY CacheMeaning DEF TypeOK, EvalInv
<1>2. QED
  BY <1>1, EvalInvHolds, TypeCorrect, PTL

(* Only targets that HC has reached are ever quiet, through every order of *)
(* edits, toggles, steps, runs and zeroings.                               *)
THEOREM QuietIsReached == Spec => []QuietMeansReached
<1>1. EvalInv => QuietMeansReached
  BY DEF EvalInv
<1>2. QED
  BY <1>1, EvalInvHolds, PTL

-----------------------------------------------------------------------------
(* What an edge does to a run.  While the loop is not paused the store     *)
(* shows no reason.                                                        *)

ReasonInv == status # "paused" => lastPauseReason = None

LEMMA ReasonInvHolds == Spec => []ReasonInv
<1>1. Init => ReasonInv
  BY DEF Init, ReasonInv
<1>2. ReasonInv /\ [Next]_vars => ReasonInv'
  BY DEF ReasonInv, Next, Verb, Run, Pause, FirePause, StepInstructions, StepHC, ZeroHC,
         EditList, SetWaitPin, SetTraceInstructions, FrameStart, Edge, vars, loopVars
<1>3. QED
  BY <1>1, <1>2, PTL DEF Spec

LEMMA FrameStepIsEdge == inFrame /\ Next => Edge
  BY DEF Next, Verb, FrameStart

(* A target that may fire and is due is hit. *)
LEMMA DueIsHit ==
  ASSUME TypeOK, EvalInv, NEW h \in Hc,
         NEW i \in BpId, Armed(i), enabledHc[i] <= h
  PROVE  HcHit(h)
<1>1. nextHcTarget <= enabledHc[i]
  BY CacheMeaning DEF TypeOK, EvalInv, NextTargetIsLeastArmed
<1>2. nextHcTarget \in Int /\ enabledHc[i] \in Int /\ h \in Int
  BY HcAssumption DEF TypeOK, BpTypeOK, Target, Infinity, Hc
<1>3. QED
  BY <1>1, <1>2 DEF HcHit

(* In every behaviour no run goes past a breakpoint: an edge that makes a  *)
(* target due, or enters an M1 inside an enabled range, leaves the loop    *)
(* paused.                                                                 *)
THEOREM BreakpointsStopRuns == Spec => RunStopsAtBreakpoints
<1> DEFINE Body == (inFrame /\ status = "running"
                    /\ \/ \E i \in BpId : Armed(i) /\ enabledHc[i] <= hc'
                       \/ pos # 0 /\ pos' = 0 /\ StopsAt(pc'))
                     => status' = "paused"
<1>1. TypeOK /\ EvalInv /\ [Next]_vars => [Body]_vars
  <2> SUFFICES ASSUME TypeOK, EvalInv, Next, inFrame, status = "running",
                      \/ \E i \in BpId : Armed(i) /\ enabledHc[i] <= hc'
                      \/ pos # 0 /\ pos' = 0 /\ StopsAt(pc')
               PROVE  status' = "paused"
    OBVIOUS
  <2>1. Edge /\ NextHc \in Hc /\ hc' = NextHc
    BY FrameStepIsEdge, NextHcType DEF Edge, TypeOK
  <2>2. BreakReason(NextHc) # None
    <3>1. CASE \E i \in BpId : Armed(i) /\ enabledHc[i] <= hc'
      BY <2>1, <3>1, DueIsHit DEF BreakReason, HcTarget, None
    <3>2. CASE pos' = 0 /\ StopsAt(pc')
      <4>1. PcHit(pc') /\ AtM1Entry'
        BY <3>2 DEF EvalInv, QuietMeansReached, StopsAt, RangesOf, PcHit, AtM1Entry
      <4>2. QED
        BY <4>1 DEF BreakReason, HcTarget, PcBreakpoint, None
    <3>3. QED
      BY <3>1, <3>2
  <2>3. QED
    BY <2>1, <2>2 DEF Edge, FirePause
<1>2. QED
  BY <1>1, EvalInvHolds, TypeCorrect, PTL DEF Spec, RunStopsAtBreakpoints

(* In every behaviour a pause holds the CPU: a frame that was queued       *)
(* before the pause runs no edge after it, no verb moves the CPU, and HC   *)
(* changes only by being zeroed.                                           *)
THEOREM PausedLoopIsStill == Spec => PausedCpuIsStill
<1> DEFINE Body == status = "paused" => /\ UNCHANGED <<pos, len, second, pc>>
                                        /\ hc' \in {hc, 0}
<1>1. OneFrame /\ [Next]_vars => [Body]_vars
  <2> SUFFICES ASSUME OneFrame, Next, status = "paused"
               PROVE  UNCHANGED <<pos, len, second, pc>> /\ hc' \in {hc, 0}
    OBVIOUS
  <2>1. ~Edge
    BY DEF OneFrame, Edge
  <2>2. CASE FrameStart
    BY <2>2 DEF FrameStart, cpuVars
  <2>3. CASE Verb
    <3>1. CASE Run \/ EditList \/ ZeroHC
      BY <3>1 DEF Run, EditList, ZeroHC, cpuVars
    <3>2. CASE \E n \in StepCounts : StepInstructions(n) \/ StepHC(n)
      BY <3>2 DEF StepInstructions, StepHC, cpuVars
    <3>3. CASE SetWaitPin \/ \E v \in BOOLEAN : SetTraceInstructions(v)
      BY <3>3 DEF SetWaitPin, SetTraceInstructions, SetEnabled
    <3>4. QED
      BY <2>3, <3>1, <3>2, <3>3 DEF Verb, Pause
  <2>4. QED
    BY <2>1, <2>2, <2>3 DEF Next
<1>2. QED
  BY <1>1, FramesAreSingle, PTL DEF Spec, PausedCpuIsStill

(* In every behaviour a pause at a target is the last one for every        *)
(* breakpoint that has it, until the user re-arms it, and for no other.    *)
THEOREM TargetsFireOnce == Spec => EachTargetFiresOnce
<1> DEFINE Body == (inFrame /\ lastPauseReason'.kind = "hc-target") =>
                     LET t == lastPauseReason'.target
                     IN  /\ \E i \in BpId : Armed(i) /\ enabledHc[i] = t
                         /\ \A i \in BpId : Armed(i) => (Armed(i)' <=> enabledHc[i] # t)
<1>1. TypeOK /\ EvalInv /\ ReasonInv /\ OneFrame /\ [Next]_vars => [Body]_vars
  <2> SUFFICES ASSUME TypeOK, EvalInv, ReasonInv, OneFrame, Next, inFrame,
                      lastPauseReason'.kind = "hc-target"
               PROVE  LET t == lastPauseReason'.target
                      IN  /\ \E i \in BpId : Armed(i) /\ enabledHc[i] = t
                          /\ \A i \in BpId : Armed(i) => (Armed(i)' <=> enabledHc[i] # t)
    OBVIOUS
  <2>1. Edge /\ NextHc \in Hc /\ lastPauseReason = None /\ CheckAfterEdge(NextHc)
    BY FrameStepIsEdge, NextHcType DEF Edge, TypeOK, ReasonInv, OneFrame
  <2>2. lastPauseReason' = BreakReason(NextHc)
    BY <2>1 DEF Edge, FirePause, StepComplete, None
  <2>3. HcHit(NextHc) /\ lastPauseReason'.target = nextHcTarget
    BY <2>2 DEF BreakReason, HcTarget, PcBreakpoint, None
  <2>4. nextHcTarget # Infinity
    BY <2>1, <2>3, HitIsTarget, HcAssumption DEF TypeOK, Target, Infinity
  <2>5. \E i \in BpId : Armed(i) /\ enabledHc[i] = nextHcTarget
    BY <2>4, CacheMeaning DEF EvalInv, TypeOK, NextTargetIsLeastArmed
  <2>6. /\ firedHcIds' = firedHcIds \cup {i \in BpId : enabledHc[i] = nextHcTarget}
        /\ enabledHc' = enabledHc
    BY <2>1, <2>3 DEF CheckAfterEdge
  <2>7. QED
    BY <2>3, <2>5, <2>6 DEF Armed
<1>2. QED
  BY <1>1, EvalInvHolds, ReasonInvHolds, FramesAreSingle, TypeCorrect, PTL
  DEF Spec, EachTargetFiresOnce

-----------------------------------------------------------------------------
(* The refinement: bps is the abstract list, the fired ids are the quiet   *)
(* ones, and the cache is hidden.                                          *)

LEMMA EditIsChange ==
  ASSUME TypeOK, EvalInv, EditList
  PROVE  OneShotTargets!Change
<1>1. BpTypeOK' /\ SetBreakpoints(bps') /\ BpTypeOK /\ enabledHc = TargetsOf(bps)
  BY EditListType DEF TypeOK, EvalInv, QuietMeansReached
<1>2. ASSUME NEW i \in firedHcIds
      PROVE  i \in StillFired(bps') <=> OneShotTargets!SameAlarm(i)
  <2>1. i \in BpId
    BY <1>2, <1>1 DEF BpTypeOK
  <2>2. IsHcBp(bps'[i]) => bps'[i].target # Infinity
    BY <1>1, <2>1, HcAssumption
    DEF BpTypeOK, IsHcBp, Bp, PcBp, HcBp, Absent, Target, Infinity
  <2>3. ASSUME IsHcBp(bps'[i]), bps'[i].enabled
        PROVE  enabledHc[i] = bps'[i].target
                 <=> (OneShotTargets!Enabled(bps, i) /\ bps[i].target = bps'[i].target)
    BY <1>1, <2>1, <2>2, <2>3, TargetsMeaning DEF OneShotTargets!Enabled, IsHcBp
  <2>4. QED
    BY <1>2, <2>1, <2>3 DEF StillFired, OneShotTargets!SameAlarm, IsHcBp
<1>3. firedHcIds' = {i \in firedHcIds : OneShotTargets!SameAlarm(i)}
  <2>1. firedHcIds' = StillFired(bps') /\ StillFired(bps') \subseteq firedHcIds
    BY <1>1 DEF SetBreakpoints, StillFired
  <2>2. QED
    BY <1>2, <2>1
<1>4. QED
  BY <1>3 DEF OneShotTargets!Change, EditList, loopVars

LEMMA EdgeIsTick ==
  ASSUME TypeOK, EvalInv, OneFrame, Edge
  PROVE  OneShotTargets!Tick
<1>1. /\ NextHc \in Hc /\ hc' = NextHc /\ bps' = bps /\ CheckAfterEdge(NextHc)
      /\ BpTypeOK /\ enabledHc = TargetsOf(bps) /\ status # "paused"
  BY NextHcType DEF TypeOK, Edge, EvalInv, QuietMeansReached, OneFrame
<1>2. ASSUME NEW i \in BpId
      PROVE  OneShotTargets!Due(i, hc') <=> (Armed(i) /\ enabledHc[i] <= hc')
  BY <1>1, TargetsMeaning DEF OneShotTargets!Due, OneShotTargets!Enabled, Armed, IsHcBp
<1>3. \A i \in BpId : Armed(i) => enabledHc[i] = bps[i].target
  BY <1>1, TargetsMeaning DEF Armed
<1>4. (\E i \in BpId : OneShotTargets!Due(i, hc')) => HcHit(NextHc)
  BY <1>1, <1>2, DueIsHit
<1>5. firedHcIds' = firedHcIds \cup {i \in BpId : OneShotTargets!FirstDue(i, hc')}
  <2>1. CASE ~HcHit(NextHc)
    BY <1>1, <1>4, <2>1 DEF CheckAfterEdge, OneShotTargets!FirstDue
  <2>2. CASE HcHit(NextHc)
    <3>1. /\ nextHcTarget \in Target /\ nextHcTarget # Infinity
          /\ nextHcTarget <= hc' /\ NextTargetIsLeastArmed
      BY <1>1, <2>2, HitIsTarget, CacheMeaning, HcAssumption
      DEF Target, Infinity, HcHit, Hc, EvalInv
    <3>2. firedHcIds' = firedHcIds \cup {i \in BpId : enabledHc[i] = nextHcTarget}
      BY <1>1, <2>2 DEF CheckAfterEdge
    <3>3. ASSUME NEW i \in BpId, i \notin firedHcIds
          PROVE  enabledHc[i] = nextHcTarget <=> OneShotTargets!FirstDue(i, hc')
      <4>1. \A j \in BpId : enabledHc[j] \in Int
        BY <1>1, HcAssumption DEF BpTypeOK, Target, Infinity
      <4>2. ASSUME enabledHc[i] = nextHcTarget PROVE OneShotTargets!FirstDue(i, hc')
        <5>1. Armed(i) /\ enabledHc[i] <= hc'
          BY <3>1, <3>3, <4>2 DEF Armed
        <5>2. \A j \in BpId : OneShotTargets!Due(j, hc') => enabledHc[i] <= bps[j].target
          BY <1>2, <1>3, <3>1, <4>2 DEF NextTargetIsLeastArmed
        <5>3. QED
          BY <1>2, <1>3, <5>1, <5>2 DEF OneShotTargets!FirstDue
      <4>3. ASSUME OneShotTargets!FirstDue(i, hc') PROVE enabledHc[i] = nextHcTarget
        <5>1. Armed(i)
          BY <1>2, <4>3 DEF OneShotTargets!FirstDue
        <5>2. PICK j \in BpId : Armed(j) /\ enabledHc[j] = nextHcTarget
          BY <3>1 DEF NextTargetIsLeastArmed
        <5>3. OneShotTargets!Due(j, hc')
          BY <1>2, <3>1, <5>2
        <5>4. enabledHc[i] <= nextHcTarget
          BY <1>3, <4>3, <5>1, <5>2, <5>3 DEF OneShotTargets!FirstDue
        <5>5. nextHcTarget <= enabledHc[i]
          BY <3>1, <5>1 DEF NextTargetIsLeastArmed
        <5>6. QED
          BY <3>1, <4>1, <5>4, <5>5 DEF Target
      <4>4. QED
        BY <4>2, <4>3
    <3>4. QED
      BY <3>2, <3>3
  <2>3. QED
    BY <2>1, <2>2
<1>6. HcHit(NextHc) => BreakReason(NextHc) # None
  BY DEF BreakReason, HcTarget, None
<1>7. (status = "running" /\ \E i \in BpId : OneShotTargets!Due(i, hc')) => status' = "paused"
  BY <1>4, <1>6 DEF Edge, FirePause
<1>8. status' \in {"paused", status}
  BY DEF Edge, FirePause
<1>9. hc' = (IF hc < HcMax THEN hc + 1 ELSE hc)
  BY <1>1 DEF NextHc
<1>10. QED
  BY <1>1, <1>5, <1>7, <1>8, <1>9 DEF OneShotTargets!Tick

(* The evaluator, with its cache, its fired set and its re-arming rules,   *)
(* implements one-shot targets that are read off the list at every edge.   *)
THEOREM EvaluatorImplementsOneShot == Spec => ImplementsOneShot
<1>1. Init => OneShotTargets!AbstractInit
  BY DEF Init, BpInit, OneShotTargets!AbstractInit
<1>2. TypeOK /\ EvalInv /\ OneFrame /\ [Next]_vars
        => [OneShotTargets!AbstractNext]_(OneShotTargets!abstractVars)
  <2> SUFFICES ASSUME TypeOK, EvalInv, OneFrame, [Next]_vars
               PROVE  [OneShotTargets!AbstractNext]_(OneShotTargets!abstractVars)
    OBVIOUS
  <2> USE DEF OneShotTargets!AbstractNext, OneShotTargets!abstractVars
  <2>1. CASE EditList
    BY <2>1, EditIsChange
  <2>2. CASE Edge
    BY <2>2, EdgeIsTick
  <2>3. CASE ZeroHC
    BY <2>3 DEF ZeroHC, ResetHcCutoff, loopVars, OneShotTargets!Zero
  <2>4. CASE Run \/ Pause \/ (\E n \in StepCounts : StepInstructions(n) \/ StepHC(n))
    BY <2>4 DEF Run, Pause, FirePause, StepInstructions, StepHC, bpVars, evalVars,
                OneShotTargets!Command
  <2>5. CASE UNCHANGED <<bps, firedHcIds, hc, status>>
    BY <2>5
  <2>6. QED
    BY <2>1, <2>2, <2>3, <2>4, <2>5
    DEF Next, Verb, SetWaitPin, SetTraceInstructions, FrameStart, vars, loopVars, bpVars, evalVars
<1>3. QED
  BY <1>1, <1>2, EvalInvHolds, FramesAreSingle, TypeCorrect, PTL
  DEF Spec, ImplementsOneShot, OneShotTargets!AbstractSpec

-----------------------------------------------------------------------------
(* The loop under the store.  The store only watches: a step of the store  *)
(* over the loop is a step of the loop, so what is shown above of the loop *)
(* holds under it, and the mirrors need only be followed through each      *)
(* callback and verb.                                                      *)

LEMMA StoreStepIsLoopStep == [StoreNext]_allVars => [Next]_vars
<1> SUFFICES ASSUME [StoreNext]_allVars PROVE [Next]_vars
  OBVIOUS
<1>1. CASE StoreVerb
  <2>1. ~inFrame
    BY <1>1 DEF StoreVerb
  <2>2. CASE StoreRunVerb
    BY <2>1, <2>2 DEF StoreRunVerb, Next, Verb
  <2>3. ASSUME NEW n \in StepCounts, StoreStep(n) PROVE [Next]_vars
    BY <2>1, <2>3 DEF StoreStep, Next, Verb
  <2>4. CASE StorePause
    BY <2>1, <2>4 DEF StorePause, Next, Verb
  <2>5. CASE StoreZeroHC
    BY <2>1, <2>5 DEF StoreZeroHC, Next, Verb
  <2>6. CASE EditList \/ SetWaitPin \/ \E v \in BOOLEAN : SetTraceInstructions(v)
    BY <2>1, <2>6 DEF Next, Verb
  <2>7. QED
    BY <1>1, <2>2, <2>3, <2>4, <2>5, <2>6 DEF StoreVerb
<1>2. CASE StoreFrameStart
  BY <1>2 DEF StoreFrameStart, Next
<1>3. CASE StoreEdge
  BY <1>3 DEF StoreEdge, Next
<1>4. CASE FlushTick
  BY <1>4 DEF FlushTick
<1>5. CASE UNCHANGED allVars
  BY <1>5 DEF allVars
<1>6. QED
  BY <1>1, <1>2, <1>3, <1>4, <1>5 DEF StoreNext

(* Whatever the store does, the loop it drives behaves as RunLoop says.    *)
THEOREM StoreDrivesTheLoop == StoreSpec => Spec
<1>1. StoreInit => Init
  BY DEF StoreInit
<1>2. QED
  BY <1>1, StoreStepIsLoopStep, PTL DEF StoreSpec, Spec

(* The parts of StepInv, under the store.                                  *)
LEMMA LoopInvHolds == Spec => [](TypeOK /\ OneFrame /\ StepInv)
<1>1. Init => StepInv
  BY DEF Init, StepInv, OneStepCounter, NoRequest
<1>2. QED
  BY <1>1, StepInvStep, FramesAreSingle, TypeCorrect, PTL DEF Spec

-----------------------------------------------------------------------------
(* The mirrors.  In the middle of a frame the status shown is the loop's,  *)
(* too: it changes there only in a pause, whose callback runs at once.     *)

MirrorInv ==
  /\ shownStatus = status
  /\ status = "paused" => shownHc = hc /\ cpuState = Cpu /\ ~lagging

LEMMA OnPauseMirrors ==
  ASSUME NEW fired, OnPause(fired), status' = "paused"
  PROVE  MirrorInv'
  BY DEF OnPause, MirrorInv

LEMMA VerbMirrors ==
  ASSUME MirrorInv, StoreVerb
  PROVE  MirrorInv'
<1>1. CASE StoreRunVerb
  BY <1>1 DEF StoreRunVerb, Run, MirrorInv
<1>2. ASSUME NEW n \in StepCounts, StoreStep(n) PROVE MirrorInv'
  BY <1>2 DEF StoreStep, StepInstructions, StepHC, MirrorInv
<1>3. CASE StorePause
  BY <1>3, OnPauseMirrors DEF StorePause, Pause, FirePause
<1>4. CASE StoreZeroHC
  BY <1>4 DEF StoreZeroHC, ZeroHC, MirrorInv, Cpu, cpuVars, loopVars
<1>5. CASE /\ EditList \/ SetWaitPin \/ \E v \in BOOLEAN : SetTraceInstructions(v)
           /\ UNCHANGED storeVars
  <2>1. UNCHANGED <<status, hc>> /\ Cpu' = Cpu
    BY <1>5 DEF EditList, SetWaitPin, SetTraceInstructions, SetEnabled, Cpu, cpuVars, loopVars
  <2>2. QED
    BY <1>5, <2>1 DEF storeVars, shownVars, flushVars, MirrorInv
<1>6. QED
  BY <1>1, <1>2, <1>3, <1>4, <1>5 DEF StoreVerb

LEMMA MirrorStep == OneFrame /\ MirrorInv /\ [StoreNext]_allVars => MirrorInv'
<1> SUFFICES ASSUME OneFrame, MirrorInv, [StoreNext]_allVars PROVE MirrorInv'
  OBVIOUS
<1>1. CASE StoreVerb
  BY <1>1, VerbMirrors
<1>2. CASE StoreFrameStart
  BY <1>2 DEF StoreFrameStart, FrameStart, MirrorInv, Cpu, cpuVars, storeVars, shownVars, flushVars
<1>3. CASE StoreEdge
  <2>1. CASE status' = "paused"
    BY <1>3, <2>1, OnPauseMirrors DEF StoreEdge
  <2>2. CASE status' # "paused"
    <3>1. status' = status
      BY <1>3, <2>2 DEF StoreEdge, Edge, FirePause
    <3>2. shownStatus' = shownStatus
      BY <1>3, <2>2 DEF StoreEdge
    <3>3. QED
      BY <2>2, <3>1, <3>2 DEF MirrorInv
  <2>3. QED
    BY <2>1, <2>2
<1>4. CASE FlushTick
  BY <1>4 DEF FlushTick, Flush, MirrorInv, Cpu, vars, cpuVars, loopVars, shownVars
<1>5. CASE UNCHANGED allVars
  BY <1>5 DEF allVars, storeVars, shownVars, flushVars, MirrorInv, Cpu, vars, cpuVars, loopVars
<1>6. QED
  BY <1>1, <1>2, <1>3, <1>4, <1>5 DEF StoreNext

(* A paused page shows the loop's status, the CPU, the HC and the counters *)
(* as they are, at every cadence of the throttled flush.                   *)
THEOREM PausedPageIsTrue == StoreSpec => []MirrorsAgreeWhenPaused
<1>1. StoreInit => MirrorInv
  BY DEF StoreInit, Init, MirrorInv
<1>2. MirrorInv => MirrorsAgreeWhenPaused
  BY DEF MirrorInv, MirrorsAgreeWhenPaused
<1>3. QED
  BY <1>1, <1>2, MirrorStep, StoreDrivesTheLoop, FramesAreSingle, PTL DEF StoreSpec

-----------------------------------------------------------------------------
(* The effective clock. *)

ClockInv ==
  /\ clockBaseHc \in Nat /\ work \in Nat
  /\ ClockMeasuresTheRun

LEMMA BaselineIsClean ==
  ASSUME hc' \in Nat, Baseline
  PROVE  ClockInv'
<1>1. clockBaseHc' = hc' /\ work' = 0
  BY DEF Baseline
<1>2. ~idle'
  BY Zenon DEF Baseline
<1>3. hc' - clockBaseHc' = work'
  <2>1. \A n \in Nat : n - n = 0
    OBVIOUS
  <2>2. hc' - hc' = 0
    BY <2>1
  <2>3. QED
    BY <1>1, <2>2, Zenon
<1>4. clockBaseHc' \in Nat /\ work' \in Nat
  BY <1>1
<1>5. QED
  BY <1>2, <1>3, <1>4, Zenon DEF ClockInv, ClockMeasuresTheRun

LEMMA EdgeClock ==
  ASSUME TypeOK, TypeOK', ClockInv, StoreEdge
  PROVE  ClockInv'
<1>1. hc \in Nat /\ hc' \in Nat /\ HcMax \in Nat
  BY HcAssumption DEF TypeOK, Hc
<1>2. CASE ~inFrame'
  BY <1>1, <1>2, BaselineIsClean DEF StoreEdge
<1>3. CASE inFrame'
  <2>1. NoTick
    BY <1>3 DEF StoreEdge
  <2>2. status' = "running" => status = "running"
    BY <1>3 DEF StoreEdge, Edge, FirePause
  <2>3. hc' = NextHc
    BY DEF StoreEdge, Edge
  <2>4. QED
    BY <1>1, <2>1, <2>2, <2>3 DEF NoTick, NextHc, ClockInv, ClockMeasuresTheRun
<1>4. QED
  BY <1>2, <1>3

LEMMA ClockStep == TypeOK /\ TypeOK' /\ ClockInv /\ [StoreNext]_allVars => ClockInv'
<1> SUFFICES ASSUME TypeOK, TypeOK', ClockInv, [StoreNext]_allVars PROVE ClockInv'
  OBVIOUS
<1>1. CASE StoreRunVerb
  <2>1. hc' \in Nat
    BY HcAssumption DEF TypeOK, Hc
  <2>2. QED
    BY <1>1, <2>1, BaselineIsClean DEF StoreRunVerb
<1>2. ASSUME NEW n \in StepCounts, StoreStep(n) PROVE ClockInv'
  BY <1>2 DEF StoreStep, StepInstructions, StepHC, ClockInv, ClockMeasuresTheRun
<1>3. CASE StorePause
  BY <1>3 DEF StorePause, Pause, FirePause, ClockInv, ClockMeasuresTheRun
<1>4. CASE StoreZeroHC
  BY <1>4 DEF StoreZeroHC, ClockInv, ClockMeasuresTheRun
<1>5. CASE StoreEdge
  BY <1>5, EdgeClock
<1>6. CASE UNCHANGED <<hc, status, clockVars>>
  BY <1>6 DEF clockVars, ClockInv, ClockMeasuresTheRun
<1>7. CASE /\ EditList \/ SetWaitPin \/ \E v \in BOOLEAN : SetTraceInstructions(v)
           /\ UNCHANGED storeVars
  BY <1>6, <1>7 DEF EditList, SetWaitPin, SetTraceInstructions, loopVars, storeVars
<1>8. CASE StoreFrameStart
  BY <1>6, <1>8 DEF StoreFrameStart, FrameStart, storeVars
<1>9. CASE FlushTick
  BY <1>6, <1>9 DEF FlushTick, vars, loopVars
<1>10. CASE UNCHANGED allVars
  BY <1>6, <1>10 DEF allVars, vars, loopVars, storeVars
<1>11. QED
  BY <1>1, <1>2, <1>3, <1>4, <1>5, <1>7, <1>8, <1>9, <1>10 DEF StoreNext, StoreVerb

(* While the loop runs, the difference the clock is computed from counts   *)
(* the edges since the baseline and nothing else: runs, pauses, steps and  *)
(* a zeroed counter leave no other baseline behind.                        *)
THEOREM ClockIsOfTheRun == StoreSpec => []ClockMeasuresTheRun
<1>1. StoreInit => ClockInv
  BY DEF StoreInit, ClockInv, ClockMeasuresTheRun
<1>2. ClockInv => ClockMeasuresTheRun
  BY DEF ClockInv
<1>3. QED
  BY <1>1, <1>2, ClockStep, StoreDrivesTheLoop, TypeCorrect, PTL DEF StoreSpec

-----------------------------------------------------------------------------
(* The boundary flag.  That a step of instructions ended means that its    *)
(* counter, and no other, has come down to zero at this very edge: StepInv *)
(* of the loop.                                                            *)

LEMMA StepEndsWithInstruction ==
  ASSUME TypeOK, OneFrame, StepInv, Edge, status' = "paused",
         lastPauseReason' = StepComplete, request'.unit # "hc"
  PROVE  InstructionCompletes
<1> USE DEF TypeOK
<1>1. BreakReason(NextHc) # StepComplete
  BY DEF BreakReason, HcTarget, PcBreakpoint, None, StepComplete
<1>2. /\ status = "stepping"
      /\ (IF InstructionCompletes THEN Decrement(stepInstructionsRemaining)
                                  ELSE stepInstructionsRemaining) <= 0
  BY <1>1 DEF Edge, FirePause, OneFrame
<1>3. request'.unit = request.unit
  BY DEF Edge, Counted
<1>4. stepInstructionsRemaining > 0
  BY <1>2, <1>3 DEF StepInv, OneStepCounter
<1>5. QED
  BY <1>2, <1>4

LEMMA BoundaryStep ==
  TypeOK /\ OneFrame /\ StepInv /\ BoundaryFlagIsEarned /\ [StoreNext]_allVars
    => BoundaryFlagIsEarned'
<1> SUFFICES ASSUME TypeOK, OneFrame, StepInv, BoundaryFlagIsEarned, [StoreNext]_allVars
             PROVE  BoundaryFlagIsEarned'
  OBVIOUS
<1>1. CASE StoreRunVerb
  BY <1>1 DEF StoreRunVerb, Run, BoundaryFlagIsEarned
<1>2. ASSUME NEW n \in StepCounts, StoreStep(n) PROVE BoundaryFlagIsEarned'
  BY <1>2 DEF StoreStep, StepInstructions, StepHC, BoundaryFlagIsEarned
<1>3. CASE StorePause
  BY <1>3 DEF StorePause, Pause, FirePause, OnPause, BoundaryFlagIsEarned,
              UserPause, StepComplete, PcBreakpoint
<1>4. CASE StoreEdge
  <2>1. CASE status' = "paused"
    <3>1. OnPause(instructionFiredSinceLastPause \/ InstructionCompletes)
      BY <1>4, <2>1 DEF StoreEdge
    <3>2. completed' = InstructionCompletes
      BY <1>4 DEF StoreEdge
    <3>3. lastPauseReason' = StepComplete /\ request'.unit # "hc" => InstructionCompletes
      BY <1>4, <2>1, StepEndsWithInstruction DEF StoreEdge
    <3>4. QED
      BY <3>1, <3>2, <3>3 DEF OnPause, BoundaryFlagIsEarned
  <2>2. QED
    BY <2>1 DEF BoundaryFlagIsEarned
<1>5. CASE UNCHANGED <<status, lastPauseReason, request, atInstructionBoundary, completed>>
  BY <1>5 DEF BoundaryFlagIsEarned
<1>6. CASE StoreZeroHC
  BY <1>5, <1>6 DEF StoreZeroHC, ZeroHC, loopVars
<1>7. CASE /\ EditList \/ SetWaitPin \/ \E v \in BOOLEAN : SetTraceInstructions(v)
           /\ UNCHANGED storeVars
  BY <1>5, <1>7 DEF EditList, SetWaitPin, SetTraceInstructions, loopVars, storeVars, shownVars
<1>8. CASE StoreFrameStart
  BY <1>5, <1>8 DEF StoreFrameStart, FrameStart, storeVars, shownVars
<1>9. CASE FlushTick
  BY <1>5, <1>9 DEF FlushTick, vars, loopVars, shownVars
<1>10. CASE UNCHANGED allVars
  BY <1>5, <1>10 DEF allVars, vars, loopVars, storeVars, shownVars
<1>11. QED
  BY <1>1, <1>2, <1>3, <1>4, <1>6, <1>7, <1>8, <1>9, <1>10 DEF StoreNext, StoreVerb

(* The register view is declared readable only where an instruction has    *)
(* just ended or is about to start -- but for a pause of a step by half    *)
(* cycles -- and always after a step by instructions.                      *)
THEOREM BoundariesAreEarned == StoreSpec => []BoundaryFlagIsEarned
<1>1. StoreInit => BoundaryFlagIsEarned
  BY DEF StoreInit, Init, BoundaryFlagIsEarned, None, StepComplete
<1>2. QED
  BY <1>1, BoundaryStep, StoreDrivesTheLoop, LoopInvHolds, PTL DEF StoreSpec
=============================================================================
