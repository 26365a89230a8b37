------------------------------ MODULE StoreRun ------------------------------
(***************************************************************************)
(* The store (store/index.ts) as an observer of the run loop.  Its         *)
(* callbacks run inside the loop's steps: onInstruction and onPause in the *)
(* middle of a frame or of a verb, onTick at the end of a frame.  An       *)
(* instruction only bumps plain counters; what the page shows follows      *)
(* every few frames, through a flush of the store's own, or at once when   *)
(* the loop pauses.                                                        *)
(***************************************************************************)
EXTENDS RunLoop

CONSTANT Cadences   (* values of uiConfig.flushEveryNFrames                *)

ASSUME CadenceAssumption == Cadences \subseteq Nat \ {0}

VARIABLES
  shownStatus, shownHc,            (* the signals status and hc            *)
  cpuState,                        (* the sample of the CPU                *)
  instructionFiredSinceLastPause,
  atInstructionBoundary,
  lagging,                         (* insnCountRaw and the trace ring are  *)
                                   (* ahead of their throttled mirrors     *)
  runFlushScheduled,
  pending,                         (* frames until the flush, 0 when none  *)
                                   (* is queued                            *)
  clockBaselined, clockBaseHc,
  work,                            (* history: edges since the baseline    *)
  idle,                            (* history: time was spent not running  *)
                                   (* since the baseline                   *)
  completed                        (* history: the last edge completed an  *)
                                   (* instruction                          *)

flushVars == <<lagging, runFlushScheduled, pending>>
clockVars == <<clockBaselined, clockBaseHc, work, idle>>
shownVars == <<shownStatus, shownHc, cpuState, atInstructionBoundary>>
storeVars == <<shownVars, instructionFiredSinceLastPause, flushVars, clockVars, completed>>
allVars   == <<vars, storeVars>>

Cpu == <<pos, len, second, pc>>

StoreInit ==
  /\ Init
  /\ shownStatus = "paused" /\ shownHc = 0 /\ cpuState = Cpu
  /\ instructionFiredSinceLastPause = FALSE /\ atInstructionBoundary = FALSE
  /\ lagging = FALSE /\ runFlushScheduled = FALSE /\ pending = 0
  /\ clockBaselined = FALSE /\ clockBaseHc = 0 /\ work = 0 /\ idle = TRUE
  /\ completed = FALSE

-----------------------------------------------------------------------------
(* The callbacks. *)

(* Variant: the mirrors wait for the scheduled flush. *)
PauseWithoutFlush(fired) ==
  /\ shownStatus' = "paused" /\ shownHc' = hc' /\ cpuState' = Cpu'
  /\ atInstructionBoundary' = \/ lastPauseReason' = StepComplete /\ fired
                              \/ lastPauseReason' = PcBreakpoint
  /\ instructionFiredSinceLastPause' = FALSE
  /\ lagging' = (lagging \/ fired)

(* Variant: any pause after an instruction is taken for its end.           *)
AnyPauseAfterOne(fired) ==
  /\ shownStatus' = "paused" /\ shownHc' = hc' /\ cpuState' = Cpu'
  /\ atInstructionBoundary' = (fired \/ lastPauseReason' = PcBreakpoint)
  /\ instructionFiredSinceLastPause' = FALSE
  /\ lagging' = FALSE

(* fired: an instruction has completed since the last pause.               *)
OnPause(fired) ==
  /\ shownStatus' = "paused" /\ shownHc' = hc' /\ cpuState' = Cpu'
  /\ atInstructionBoundary' = \/ lastPauseReason' = StepComplete /\ fired
                              \/ lastPauseReason' = PcBreakpoint
  /\ instructionFiredSinceLastPause' = FALSE
  /\ lagging' = FALSE

(* The counters, and a flush unless one is on its way.  The cadence is the *)
(* one set when the flush is scheduled.                                    *)
OnInstruction ==
  IF InstructionCompletes /\ ~runFlushScheduled
    THEN runFlushScheduled' = TRUE /\ pending' \in Cadences
    ELSE UNCHANGED <<runFlushScheduled, pending>>

Baseline ==
  /\ clockBaselined' = TRUE /\ clockBaseHc' = hc'
  /\ work' = 0 /\ idle' = FALSE

(* Edges pass without a tick. *)
NoTick ==
  /\ work' = IF hc < HcMax THEN work + 1 ELSE work
  /\ UNCHANGED <<clockBaselined, clockBaseHc, idle>>

StoreEdge ==
  /\ Edge
  /\ OnInstruction
  /\ completed' = InstructionCompletes
  /\ LET fired == instructionFiredSinceLastPause \/ InstructionCompletes
     IN  IF status' = "paused"
           THEN OnPause(fired)
           ELSE /\ instructionFiredSinceLastPause' = fired
                /\ lagging' = (lagging \/ InstructionCompletes)
                /\ shownHc' = IF inFrame' THEN shownHc ELSE hc'
                /\ UNCHANGED <<shownStatus, cpuState, atInstructionBoundary>>
  /\ IF inFrame' THEN NoTick ELSE Baseline

-----------------------------------------------------------------------------
(* The verbs. *)

(* Variant: the clock measures from the last tick, however long ago.       *)
RunFromLastTick ==
  /\ Run
  /\ shownStatus' = "running"
  /\ UNCHANGED <<shownHc, cpuState, atInstructionBoundary, clockVars>>

StoreRunVerb ==
  /\ Run
  /\ shownStatus' = "running"
  /\ Baseline
  /\ UNCHANGED <<shownHc, cpuState, atInstructionBoundary>>

StorePause ==
  /\ Pause
  /\ OnPause(instructionFiredSinceLastPause)
  /\ idle' = TRUE
  /\ UNCHANGED <<clockBaselined, clockBaseHc, work>>
  /\ UNCHANGED <<runFlushScheduled, pending, completed>>

StoreStep(n) ==
  /\ StepInstructions(n) \/ StepHC(n)
  /\ shownStatus' = "stepping"
  /\ idle' = TRUE
  /\ UNCHANGED <<shownHc, cpuState, atInstructionBoundary, clockBaselined, clockBaseHc, work>>

(* HC, the instruction counter and both rings start over, and every mirror *)
(* with them.                                                              *)
StoreZeroHC ==
  /\ ZeroHC
  /\ shownHc' = 0
  /\ clockBaselined' = FALSE
  /\ lagging' = FALSE
  /\ UNCHANGED <<shownStatus, cpuState, atInstructionBoundary, clockBaseHc, work, idle>>
  /\ UNCHANGED <<instructionFiredSinceLastPause, runFlushScheduled, pending, completed>>

StoreVerb ==
  /\ ~inFrame
  /\ \/ /\ StoreRunVerb \/ \E n \in StepCounts : StoreStep(n)
        /\ UNCHANGED <<instructionFiredSinceLastPause, flushVars, completed>>
     \/ StorePause
     \/ StoreZeroHC
     \/ /\ EditList \/ SetWaitPin \/ \E v \in BOOLEAN : SetTraceInstructions(v)
        /\ UNCHANGED storeVars

StoreFrameStart == FrameStart /\ UNCHANGED storeVars

-----------------------------------------------------------------------------
(* Variant: the gate stays shut. *)
FlushOnce == lagging' = FALSE /\ pending' = 0 /\ UNCHANGED runFlushScheduled

Flush == lagging' = FALSE /\ pending' = 0 /\ runFlushScheduled' = FALSE

(* The store's own animation frame. *)
FlushTick ==
  /\ ~inFrame
  /\ pending > 0
  /\ IF pending > 1
       THEN pending' = pending - 1 /\ UNCHANGED <<lagging, runFlushScheduled>>
       ELSE Flush
  /\ UNCHANGED <<vars, shownVars, instructionFiredSinceLastPause, clockVars, completed>>

StoreNext == StoreVerb \/ StoreFrameStart \/ StoreEdge \/ FlushTick

StoreSpec == StoreInit /\ [][StoreNext]_allVars

(* The browser delivers the frames it was asked for, the flush between two *)
(* frames of the loop too; an edge in progress finishes; and time passes,  *)
(* so that a frame which can leave at a budget check does not stay for     *)
(* ever.                                                                   *)
StoreFairSpec ==
  /\ StoreSpec
  /\ WF_allVars(StoreFrameStart)
  /\ WF_allVars(StoreEdge)
  /\ SF_allVars(StoreEdge /\ inFrame' = FALSE)
  /\ SF_allVars(FlushTick)

-----------------------------------------------------------------------------
(* Properties. *)

(* Between two frames the page knows the loop's status, and a page that is *)
(* paused shows the CPU, the HC and the counters as they are: whatever was *)
(* still throttled when the pause came is not left for a later frame.      *)
MirrorsAgreeWhenPaused ==
  /\ ~inFrame => shownStatus = status
  /\ status = "paused" => /\ shownHc = hc
                          /\ cpuState = Cpu
                          /\ ~lagging

(* The effective clock is measured over what has run since its baseline:   *)
(* the HC difference is the edges executed, not a rebased counter, and no  *)
(* time spent paused or stepping is in it.                                 *)
ClockMeasuresTheRun ==
  clockBaselined /\ status = "running" => hc - clockBaseHc = work /\ ~idle

(* However long the CPU runs, the throttled mirrors catch up with it.      *)
MirrorsCatchUp == lagging ~> ~lagging

(* The flag that lets the register view be read says so only where an      *)
(* instruction has just ended or is about to start, and it does say so     *)
(* after a step by instructions.  But for a step by half cycles, which may *)
(* end anywhere after an instruction it passed (see the README).           *)
BoundaryFlagIsEarned ==
  status = "paused" =>
    /\ atInstructionBoundary /\ request.unit # "hc" =>
         completed \/ lastPauseReason = PcBreakpoint
    /\ lastPauseReason = StepComplete /\ request.unit = "instruction" => atInstructionBoundary
=============================================================================
