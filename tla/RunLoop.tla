------------------------------- MODULE RunLoop -------------------------------
(***************************************************************************)
(* The run loop of the explorer (runloop/loop.ts) with its breakpoint      *)
(* evaluator and the CPU it clocks.  JavaScript runs one callback at a     *)
(* time: an animation frame executes edges until it pauses or its time     *)
(* budget ends, and a user's verb runs between two frames.  The model      *)
(* executes a frame one edge per step, with every verb excluded while the  *)
(* frame is in progress.                                                   *)
(*                                                                         *)
(* The verbs are the store's (store/index.ts), which clear or set the      *)
(* reason of the last pause and pass on to the loop's.                     *)
(***************************************************************************)
EXTENDS Breakpoints

CONSTANTS
  Callers,          (* who calls the verbs: "button" and "hotkey" are the  *)
                    (* explorer's own, a "script" is bound by no gate      *)
  StepCounts,       (* the N of a step request that the UI accepts         *)
  BpChoices,        (* the breakpoints a user may ask for                  *)
  BudgetCheckEvery  (* config.budgetCheckEveryEdges                        *)

ASSUME LoopAssumption ==
  /\ Callers \subseteq {"button", "hotkey", "script"}
  /\ StepCounts \subseteq Nat \ {0}
  /\ BpChoices \subseteq Bp
  /\ BudgetCheckEvery \in Nat \ {0}

VARIABLES
  status,                     (* "paused", "running" or "stepping"         *)
  hc,                         (* hcBox[0], half cycles since zero          *)
  stepInstructionsRemaining,
  stepHcRemaining,
  frameScheduled,             (* a frame callback is queued                *)
  inFrame,                    (* runFrame is executing                     *)
  edgeBudgetCheck,            (* edges since the budget was last checked   *)
  lastPauseReason,            (* the store's, None while not paused        *)
  request                     (* history: the last step request and what   *)
                              (* has been executed since it was made       *)

loopVars == <<status, stepInstructionsRemaining, stepHcRemaining,
              frameScheduled, inFrame, edgeBudgetCheck>>
vars     == <<cpuVars, bpVars, loopVars, hc, lastPauseReason, request>>

None          == [kind |-> "none"]
UserPause     == [kind |-> "user"]
StepComplete  == [kind |-> "step-complete"]
PcBreakpoint  == [kind |-> "pc-breakpoint"]
HcTarget(t)   == [kind |-> "hc-target", target |-> t]

Reasons == {None, UserPause, StepComplete, PcBreakpoint} \cup {HcTarget(t) : t \in Target}

NoRequest      == [unit |-> "none", n |-> 0, edges |-> 0, instructions |-> 0]
Request(u, n)  == [NoRequest EXCEPT !.unit = u, !.n = n]

TypeOK ==
  /\ CpuTypeOK
  /\ BpTypeOK
  /\ status \in {"paused", "running", "stepping"}
  /\ hc \in Hc
  /\ stepInstructionsRemaining \in Nat
  /\ stepHcRemaining \in Nat
  /\ frameScheduled \in BOOLEAN
  /\ inFrame \in BOOLEAN
  /\ edgeBudgetCheck \in 0 .. (BudgetCheckEvery - 1)
  /\ lastPauseReason \in Reasons
  /\ request \in [unit : {"none", "hc", "instruction"}, n : Nat,
                  edges : Nat, instructions : Nat]

Lists == [BpId -> BpChoices \cup {Absent}]

Init ==
  /\ CpuInit
  /\ BpInit(Lists)
  /\ status = "paused"
  /\ hc = 0
  /\ stepInstructionsRemaining = 0
  /\ stepHcRemaining = 0
  /\ frameScheduled = FALSE
  /\ inFrame = FALSE
  /\ edgeBudgetCheck = 0
  /\ lastPauseReason = None
  /\ request = NoRequest

-----------------------------------------------------------------------------
(* The store's verbs, called between frames.  The verbs do not look at the *)
(* status; buttons and hotkeys offer them only while paused.               *)

Offered == "script" \in Callers \/ status = "paused"

(* The step buttons are disabled while nothing traces instructions; the    *)
(* hotkey steps one and asks only for a pause.                             *)
OfferedStep(n) ==
  \/ "script" \in Callers
  \/ status = "paused" /\ \/ "button" \in Callers /\ enabled
                          \/ "hotkey" \in Callers /\ n = 1

(* loop.run() returns early when it is running already; scheduleFrame()    *)
(* queues nothing when a frame is queued.                                  *)
Run ==
  /\ Offered
  /\ lastPauseReason' = None
  /\ status' = "running"
  /\ IF status = "running"
       THEN UNCHANGED <<stepInstructionsRemaining, stepHcRemaining, frameScheduled, request>>
       ELSE /\ stepInstructionsRemaining' = 0
            /\ stepHcRemaining' = 0
            /\ frameScheduled' = TRUE
            /\ request' = NoRequest
  /\ UNCHANGED <<cpuVars, bpVars, hc, inFrame, edgeBudgetCheck>>

FirePause(reason) ==
  /\ status' = "paused"
  /\ stepInstructionsRemaining' = 0
  /\ stepHcRemaining' = 0
  /\ lastPauseReason' = reason

Pause ==
  /\ status # "paused"
  /\ FirePause(UserPause)
  /\ UNCHANGED <<cpuVars, bpVars, hc, frameScheduled, inFrame, edgeBudgetCheck, request>>

StepInstructions(n) ==
  /\ OfferedStep(n)
  /\ lastPauseReason' = None
  /\ status' = "stepping"
  /\ stepInstructionsRemaining' = n
  /\ stepHcRemaining' = 0
  /\ frameScheduled' = TRUE
  /\ request' = Request("instruction", n)
  /\ UNCHANGED <<cpuVars, bpVars, hc, inFrame, edgeBudgetCheck>>

(* Variant: the other step counter is left as it was. *)
StepHCKeepingInstructions(n) ==
  /\ Offered
  /\ lastPauseReason' = None
  /\ status' = "stepping"
  /\ stepHcRemaining' = n
  /\ frameScheduled' = TRUE
  /\ request' = Request("hc", n)
  /\ UNCHANGED <<stepInstructionsRemaining, cpuVars, bpVars, hc, inFrame, edgeBudgetCheck>>

StepHC(n) ==
  /\ Offered
  /\ lastPauseReason' = None
  /\ status' = "stepping"
  /\ stepHcRemaining' = n
  /\ stepInstructionsRemaining' = 0
  /\ frameScheduled' = TRUE
  /\ request' = Request("hc", n)
  /\ UNCHANGED <<cpuVars, bpVars, hc, inFrame, edgeBudgetCheck>>

ZeroHC ==
  /\ Offered
  /\ hc' = 0
  /\ ResetHcCutoff
  /\ UNCHANGED <<cpuVars, bps, loopVars, lastPauseReason, request>>

EditList ==
  /\ \E i \in BpId :
       \/ \E b \in BpChoices : AddBreakpoint(i, b) \/ EditBreakpoint(i, b)
       \/ RemoveBreakpoint(i)
       \/ ToggleBreakpoint(i)
  /\ UNCHANGED <<cpuVars, loopVars, hc, lastPauseReason, request>>

(* The pins may be moved only while paused (store.setInputPin). *)
SetWaitPin ==
  /\ status = "paused"
  /\ nWAIT' = 1 - nWAIT
  /\ UNCHANGED <<pos, len, second, pc, enabled, curr, prev>>
  /\ UNCHANGED <<bpVars, loopVars, hc, lastPauseReason, request>>

SetTraceInstructions(v) ==
  /\ status = "paused"
  /\ SetEnabled(v)
  /\ UNCHANGED <<bpVars, loopVars, hc, lastPauseReason, request>>

-----------------------------------------------------------------------------
(* The frame. *)

(* Variant: a frame that was queued before the pause runs. *)
FrameStartUnguarded ==
  /\ ~inFrame
  /\ frameScheduled
  /\ frameScheduled' = FALSE
  /\ inFrame' = TRUE
  /\ edgeBudgetCheck' = 0
  /\ UNCHANGED <<cpuVars, bpVars, hc, status, stepInstructionsRemaining,
                 stepHcRemaining, lastPauseReason, request>>

(* The callback of schedule(): runFrame() returns at once when paused, and *)
(* then nothing chains.                                                    *)
FrameStart ==
  /\ ~inFrame
  /\ frameScheduled
  /\ frameScheduled' = FALSE
  /\ inFrame' = (status # "paused")
  /\ edgeBudgetCheck' = 0
  /\ UNCHANGED <<cpuVars, bpVars, hc, status, stepInstructionsRemaining,
                 stepHcRemaining, lastPauseReason, request>>

Decrement(n) == IF n > 0 THEN n - 1 ELSE n

(* hcBox[0]++ on a double. *)
NextHc == IF hc < HcMax THEN hc + 1 ELSE hc

(* What checkAfterEdge returns at HC h; the CPU has taken the edge.  An    *)
(* hc-count hit hides a pc-range hit.                                      *)
BreakReason(h) ==
  IF HcHit(h) THEN HcTarget(nextHcTarget)
  ELSE IF AtM1Entry' /\ PcHit(pc') THEN PcBreakpoint
  ELSE None

(* Variants: the next frame is not chained; it is chained for run() only.  *)
LeaveWithoutChain ==
  inFrame' = FALSE /\ edgeBudgetCheck' = 0 /\ frameScheduled' = FALSE

LeaveChainsRunOnly ==
  inFrame' = FALSE /\ edgeBudgetCheck' = 0 /\ frameScheduled' = (status' = "running")

(* Leaving the frame runs the tick subscribers and chains the next one.    *)
LeaveFrame ==
  /\ inFrame' = FALSE
  /\ edgeBudgetCheck' = 0
  /\ frameScheduled' = (status' # "paused")

(* Time may have run out whenever the budget is looked at. *)
StayOrLeave ==
  \/ /\ edgeBudgetCheck + 1 < BudgetCheckEvery
     /\ edgeBudgetCheck' = edgeBudgetCheck + 1
     /\ UNCHANGED <<inFrame, frameScheduled>>
  \/ /\ edgeBudgetCheck + 1 >= BudgetCheckEvery
     /\ \/ LeaveFrame
        \/ edgeBudgetCheck' = 0 /\ UNCHANGED <<inFrame, frameScheduled>>

(* The request with this edge counted, in the unit it asked for. *)
Counted ==
  CASE request.unit = "hc" -> [request EXCEPT !.edges = @ + 1]
    [] request.unit = "instruction" /\ InstructionCompletes
                           -> [request EXCEPT !.instructions = @ + 1]
    [] OTHER               -> request

(* One edge: clockEdge (whose instruction callback counts a step down),    *)
(* hc++, the HC step counter, the breakpoints, the step target, the        *)
(* budget.                                                                 *)
Edge ==
  /\ inFrame
  /\ ClockEdge
  /\ hc' = NextHc
  /\ CheckAfterEdge(NextHc)
  /\ request' = Counted
  /\ LET insnLeft == IF InstructionCompletes THEN Decrement(stepInstructionsRemaining)
                                             ELSE stepInstructionsRemaining
         hcLeft   == Decrement(stepHcRemaining)
         hit      == BreakReason(NextHc)
     IN  \/ /\ status # "stepping" /\ hit # None
            /\ FirePause(hit)
            /\ LeaveFrame
         \/ /\ status = "stepping" /\ insnLeft <= 0 /\ hcLeft <= 0
            /\ FirePause(StepComplete)
            /\ LeaveFrame
         \/ /\ IF status = "stepping" THEN insnLeft > 0 \/ hcLeft > 0 ELSE hit = None
            /\ stepInstructionsRemaining' = insnLeft
            /\ stepHcRemaining' = hcLeft
            /\ UNCHANGED <<status, lastPauseReason>>
            /\ StayOrLeave
  /\ UNCHANGED bps

-----------------------------------------------------------------------------
Verb ==
  /\ ~inFrame
  /\ \/ Run
     \/ Pause
     \/ \E n \in StepCounts : StepInstructions(n) \/ StepHC(n)
     \/ ZeroHC
     \/ EditList
     \/ SetWaitPin
     \/ \E v \in BOOLEAN : SetTraceInstructions(v)

Next == Verb \/ FrameStart \/ Edge

-----------------------------------------------------------------------------
Spec == Init /\ [][Next]_vars

(* The browser delivers a queued frame, and an edge in progress finishes.  *)
(* Nothing is assumed of the user.                                         *)
FairSpec == Spec /\ WF_vars(FrameStart) /\ WF_vars(Edge)
-----------------------------------------------------------------------------
(* Safety. *)

(* The cached next target is the least target that may still fire, and is  *)
(* infinite only when none may: the one comparison an edge costs decides   *)
(* as the whole list would (recomputeNextHc after every mutation).         *)
NextTargetIsLeastArmed ==
  /\ \A i \in BpId : Armed(i) => nextHcTarget <= enabledHc[i]
  /\ nextHcTarget # Infinity => \E i \in BpId : Armed(i) /\ enabledHc[i] = nextHcTarget

(* A breakpoint is quiet only for a target that HC has reached: an edited, *)
(* re-enabled or re-added one is armed again, and so is every one after    *)
(* zeroHC; and the evaluator works on the list the store shows.            *)
QuietMeansReached ==
  /\ enabledPc = RangesOf(bps)
  /\ enabledHc = TargetsOf(bps)
  /\ \A i \in firedHcIds : /\ IsHcBp(bps[i])
                           /\ bps[i].enabled => bps[i].target <= hc

(* Not paused means exactly one frame is queued or executing, whatever     *)
(* order of run, pause and step came before: no lost wake-up, and never    *)
(* two frames that would each run the CPU.                                 *)
OneFrame ==
  /\ inFrame => status # "paused" /\ ~frameScheduled
  /\ status # "paused" => inFrame \/ frameScheduled

(* Exactly one of the step counters counts, and only while stepping: a     *)
(* step that was interrupted leaves nothing to a later run.                *)
OneStepCounter ==
  IF status = "stepping"
    THEN \/ stepHcRemaining > 0 /\ stepInstructionsRemaining = 0
         \/ stepHcRemaining = 0 /\ stepInstructionsRemaining > 0
    ELSE stepHcRemaining = 0 /\ stepInstructionsRemaining = 0

(* A step executes what was asked, to the edge or the instruction: the     *)
(* counters owe exactly the rest of the request, and unless the user       *)
(* paused it, a step that has ended executed all of it -- no breakpoint    *)
(* cuts it short.                                                          *)
Executed == IF request.unit = "hc" THEN request.edges ELSE request.instructions

StepIsExact ==
  /\ status = "stepping" =>
       stepHcRemaining + stepInstructionsRemaining = request.n - Executed
  /\ (status = "paused" /\ request.unit # "none" /\ lastPauseReason # UserPause)
       => Executed = request.n

(* A pause holds the CPU: the frame that was already queued when the user  *)
(* paused executes no edge, and HC moves only to zero.                     *)
PausedCpuIsStill ==
  [][status = "paused" => /\ UNCHANGED <<pos, len, second, pc>>
                          /\ hc' \in {hc, 0}]_vars

(* No run goes past a breakpoint: an edge at which a target that may fire  *)
(* is due, or which reaches an M1 entry inside an enabled range, ends it.  *)
StopsAt(a) == \E i \in BpId : /\ IsPcBp(bps[i]) /\ bps[i].enabled
                              /\ bps[i].range.lo <= a /\ a <= bps[i].range.hi

RunStopsAtBreakpoints ==
  [][(inFrame /\ status = "running"
      /\ \/ \E i \in BpId : Armed(i) /\ enabledHc[i] <= hc'
         \/ pos # 0 /\ pos' = 0 /\ StopsAt(pc'))
       => status' = "paused"]_vars

(* A pause at a target uses the target up: some breakpoint held it, none   *)
(* that holds it can pause again, and no other target is used with it.     *)
EachTargetFiresOnce ==
  [][(inFrame /\ lastPauseReason'.kind = "hc-target") =>
       LET t == lastPauseReason'.target
       IN  /\ \E i \in BpId : Armed(i) /\ enabledHc[i] = t
           /\ \A i \in BpId : Armed(i) => (Armed(i)' <=> enabledHc[i] # t)]_vars

(* The evaluator's cache and bookkeeping implement one-shot targets read   *)
(* off the list.                                                           *)
OneShotTargets == INSTANCE OneShot WITH list <- bps, quiet <- firedHcIds
ImplementsOneShot == OneShotTargets!AbstractSpec

-----------------------------------------------------------------------------
(* Liveness. *)

(* A step of N half cycles ends, and one of N instructions ends unless the *)
(* WAIT pin holds the CPU.                                                 *)
StepEnds ==
  /\ (status = "stepping" /\ request.unit = "hc") ~> (status # "stepping")
  /\ (status = "stepping" /\ request.unit = "instruction")
       ~> (status # "stepping" \/ nWAIT = 0)

(* While the loop is not paused the CPU keeps being clocked. *)
RunningMakesProgress == <>[](status # "paused") => []<><<Edge>>_vars
=============================================================================
