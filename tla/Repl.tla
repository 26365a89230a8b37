-------------------------------- MODULE Repl --------------------------------
(***************************************************************************)
(* The interactive shell of packages/z80cpu-cli/src/repl.ts.  Lines reach  *)
(* a queue while the program waits for one; a command runs the CPU in a    *)
(* loop that nothing interrupts, and a loop ends when a callback of the    *)
(* tracer or of the breakpoints has set its flag.                          *)
(*                                                                         *)
(* What a command prints is left out, but for the address of the trace     *)
(* that a step prints.                                                     *)
(***************************************************************************)
EXTENDS Z80Breakpoints, Sequences

CONSTANTS
  Ranges,      (* the ranges a user types after b                          *)
  Skips,       (* the numbers a user types                                 *)
  EnterLimit,  (* how long an empty line waits for a trace: 1024           *)
  Prefetch,    (* prefetchHc by default: 96                                *)
  MaxLines,    (* bound: lines typed                                       *)
  HcMax        (* bound: half cycles run                                   *)

ASSUME ReplAssumption ==
  /\ Ranges \subseteq [lo : Addr, hi : Addr]
  /\ \A r \in Ranges : r.lo <= r.hi
  /\ Skips \subseteq Nat \ {0}
  /\ EnterLimit \in Nat \ {0} /\ Prefetch \in Nat
  /\ MaxLines \in Nat /\ HcMax \in Nat

NoRange == [lo |-> 0, hi |-> -1]
NoPc    == -1

Commands ==
  [op : {"enter", "continue", "show", "clear", "exit"}]
    \cup [op : {"break"}, range : Ranges] \cup [op : {"skip"}, n : Skips]

(* What ask() answers when the input has ended: null leaves as exit does.  *)
Eof == [number |-> 0, command |-> [op |-> "exit"]]

VARIABLES
  mode,       (* asking, answered, or the loop that runs: enter, continue, skip; bye *)
  answer,     (* what the promise of ask() was resolved with               *)
  queue,      (* lines nobody has asked for                                *)
  closed,     (* the input has ended                                       *)
  phase,      (* within tickEdge(): the clock edge, then tickAfterEdge     *)
  fired,      (* the flags the callbacks set                               *)
  timedOut,
  bpHit,
  done,
  bpRange,    (* the one breakpoint slot                                   *)
  arrived,    (* history: lines typed                                      *)
  taken,      (* history: lines taken                                      *)
  since,      (* history: hc when the loop began, and what it was asked    *)
  currPc,     (* history: where the trace in dbg.curr starts, and in prev  *)
  prevPc,
  brokeAt     (* history: where the last continue stopped, nothing run since *)

flags     == <<fired, timedOut, bpHit, done>>
inputVars == <<answer, queue, closed, arrived, taken>>
traceVars == <<currPc, prevPc>>
ownVars   == <<mode, phase, flags, bpRange, inputVars, since, traceVars, brokeAt>>
vars      == <<cpuVars, hc, pcBreaks, triggerVars, ownVars>>

-----------------------------------------------------------------------------
(* The input: rl.on("line"), rl.on("close"), ask().                        *)

(* Lines are events: they come only while no loop runs. *)
Awaiting == mode \in {"asking", "answered"}

Numbered(command) == [number |-> arrived + 1, command |-> command]

(* Variant: a line that nobody asked for yet is dropped. *)
DropLine(command) ==
  /\ IF mode = "asking"
       THEN mode' = "answered" /\ answer' = Numbered(command)
       ELSE UNCHANGED <<mode, answer>>
  /\ arrived' = arrived + 1
  /\ UNCHANGED <<queue, closed, taken>>

ReceiveLine(command) ==
  /\ IF mode = "asking"
       THEN mode' = "answered" /\ answer' = Numbered(command) /\ UNCHANGED queue
       ELSE queue' = Append(queue, Numbered(command)) /\ UNCHANGED <<mode, answer>>
  /\ arrived' = arrived + 1
  /\ UNCHANGED <<closed, taken>>

Idle ==
  UNCHANGED <<cpuVars, hc, pcBreaks, triggerVars, phase, flags, bpRange, since,
              traceVars, brokeAt>>

Line ==
  /\ Awaiting /\ ~closed
  /\ arrived < MaxLines
  /\ \E command \in Commands : ReceiveLine(command)
  /\ Idle

Close ==
  /\ Awaiting /\ ~closed
  /\ closed' = TRUE
  /\ IF mode = "asking" THEN mode' = "answered" /\ answer' = Eof
                        ELSE UNCHANGED <<mode, answer>>
  /\ UNCHANGED <<queue, arrived, taken>>
  /\ Idle

(* The next turn of the main loop asks again. *)
Ask ==
  IF queue # <<>> THEN mode' = "answered" /\ answer' = Head(queue) /\ queue' = Tail(queue)
  ELSE /\ mode' = IF closed THEN "answered" ELSE "asking"
       /\ answer' = Eof
       /\ UNCHANGED queue

-----------------------------------------------------------------------------
(* The commands. *)

Take == taken' = taken + 1 /\ UNCHANGED <<closed, arrived>>

(* Variant: what the breakpoint slot held stays registered. *)
ReplacedLeaks(range) == pcBreaks \cup {range}

Replaced(range) == (pcBreaks \ {bpRange}) \cup {range}

Leave ==
  /\ answer.command.op = "exit"
  /\ mode' = "bye"
  /\ closed' = TRUE
  /\ taken' = IF answer = Eof THEN taken ELSE taken + 1
  /\ UNCHANGED <<answer, queue, arrived>>
  /\ Idle

(* b, an address out of range, a word that is no command: only text; and   *)
(* so is c without a breakpoint.                                           *)
OnlyPrints ==
  /\ \/ answer.command.op = "show"
     \/ answer.command.op = "continue" /\ bpRange = NoRange
  /\ Take /\ Ask
  /\ Idle

SetBreak ==
  /\ answer.command.op \in {"break", "clear"}
  /\ LET set == answer.command.op = "break"
     IN  /\ bpRange' = IF set THEN answer.command.range ELSE NoRange
         /\ pcBreaks' = IF set THEN Replaced(answer.command.range) ELSE pcBreaks \ {bpRange}
  /\ bpHit' = FALSE
  /\ Take /\ Ask
  /\ UNCHANGED <<cpuVars, hc, triggerVars, phase, fired, timedOut, done, since,
                 traceVars, brokeAt>>

Begin(loop, n) ==
  /\ mode' = loop
  /\ since' = [hc |-> hc, n |-> n]
  /\ Take
  /\ UNCHANGED <<pos, len, second, pc, nWAIT, hc, pcBreaks, phase, bpRange, answer, queue,
                 traceVars>>

Enter ==
  /\ answer.command.op = "enter"
  /\ hc + EnterLimit <= HcMax
  /\ StepHc(EnterLimit, "timedOut", 0, enabled)
  /\ fired' = FALSE /\ timedOut' = FALSE
  /\ Begin("enter", EnterLimit)
  /\ UNCHANGED <<bpHit, done, brokeAt>>

(* Variant: c runs with the tracer as it was. *)
KeepTracing == UNCHANGED <<enabled, curr, prev>>

StopTracing == enabled' = FALSE /\ UNCHANGED <<curr, prev>>

Continue ==
  /\ answer.command.op = "continue" /\ bpRange # NoRange
  /\ bpHit' = FALSE
  /\ StopTracing
  /\ Begin("continue", 0)
  /\ brokeAt' = NoPc
  /\ UNCHANGED <<triggerVars, fired, timedOut, done>>

(* dbg.enabled = false, then stepHc() with the default prefetch. *)
Skip ==
  /\ answer.command.op = "skip"
  /\ hc + answer.command.n <= HcMax
  /\ StepHc(answer.command.n, "done", Prefetch, FALSE)
  /\ done' = FALSE
  /\ Begin("skip", answer.command.n)
  /\ brokeAt' = NoPc
  /\ UNCHANGED <<fired, timedOut, bpHit>>

Command ==
  /\ mode = "answered"
  /\ Leave \/ OnlyPrints \/ SetBreak \/ Enter \/ Continue \/ Skip

-----------------------------------------------------------------------------
(* The loops. *)

Looping == mode \in {"enter", "continue", "skip"}

LoopEnds ==
  CASE mode = "enter"    -> fired \/ timedOut
    [] mode = "continue" -> bpHit
    [] mode = "skip"     -> done

(* Variant: the counter moves only while the tracer does. *)
TracedHc == IF enabled THEN hc + 1 ELSE hc

NextHc == hc + 1

(* tickEdge() up to hcBox[0]++: the bus, dbg.clockEdge(), the counter.     *)
Clock ==
  /\ Looping /\ phase = "clock" /\ ~LoopEnds
  /\ hc < HcMax
  /\ ClockEdge
  /\ hc' = NextHc
  /\ phase' = "tick"
  /\ fired' = (fired \/ (mode = "enter" /\ InstructionCompletes))
  /\ IF enabled /\ pos = M1T31 - 1 /\ ~(second /\ curr)
       THEN currPc' = pc /\ prevPc' = currPc
       ELSE UNCHANGED traceVars
  /\ UNCHANGED <<pcBreaks, triggerVars, mode, timedOut, bpHit, done, bpRange, inputVars,
                 since, brokeAt>>

(* bp.tickAfterEdge() *)
Tick ==
  /\ phase = "tick"
  /\ TickAfterEdge
  /\ phase' = "clock"
  /\ bpHit' = (bpHit \/ PcMatches)
  /\ timedOut' = (timedOut \/ (StepFires /\ stepCb = "timedOut"))
  /\ done' = (done \/ (StepFires /\ stepCb = "done"))
  /\ UNCHANGED <<mode, fired, bpRange, inputVars, since, traceVars, brokeAt>>

(* Variant: the trigger stays armed. *)
KeepTrigger == UNCHANGED triggerVars

AfterEnter == CancelStepHc

(* The loop is left; a step cancels the trigger it armed.                  *)
Finish ==
  /\ Looping /\ phase = "clock" /\ LoopEnds
  /\ IF mode = "enter" THEN AfterEnter ELSE UNCHANGED triggerVars
  /\ brokeAt' = IF mode = "continue" THEN pc ELSE NoPc
  /\ Ask
  /\ UNCHANGED <<cpuVars, hc, pcBreaks, phase, flags, bpRange, closed, arrived, taken,
                 since, traceVars>>

Loop == Clock \/ Tick \/ Finish

-----------------------------------------------------------------------------
Init ==
  /\ CpuInit /\ BreakpointsInit
  /\ mode = "asking" /\ answer = Eof /\ queue = <<>> /\ closed = FALSE
  /\ phase = "clock"
  /\ fired = FALSE /\ timedOut = FALSE /\ bpHit = FALSE /\ done = FALSE
  /\ bpRange = NoRange
  /\ arrived = 0 /\ taken = 0
  /\ since = [hc |-> 0, n |-> 0]
  /\ currPc = NoPc /\ prevPc = NoPc /\ brokeAt = NoPc

Next == Line \/ Close \/ Command \/ Loop

Spec == Init /\ [][Next]_vars

(* A loop that has begun runs: it is plain synchronous code. *)
FairSpec == Spec /\ WF_vars(Loop)

-----------------------------------------------------------------------------
TypeOK ==
  /\ CpuTypeOK /\ BreakpointsTypeOK
  /\ mode \in {"asking", "answered", "enter", "continue", "skip", "bye"}
  /\ phase \in {"clock", "tick"}
  /\ {fired, timedOut, bpHit, done, closed} \subseteq BOOLEAN
  /\ Len(queue) <= MaxLines /\ taken <= arrived /\ hc <= HcMax

(* No line is lost and none overtakes another, however fast they come:     *)
(* what is answered and what is queued are the lines not taken, in order   *)
(* ("lines after the first would be dropped" is why there is a queue).     *)
Pending ==
  (IF mode = "answered" /\ answer # Eof THEN <<answer>> ELSE <<>>) \o queue

LinesInOrder ==
  mode # "bye" =>
    /\ Len(Pending) = arrived - taken
    /\ \A i \in 1 .. Len(Pending) : Pending[i].number = taken + i

(* c runs without tracing until it hits, and a skip until the prefetch:    *)
(* no trigger of an earlier command turns the tracer on ("would            *)
(* force-enable dbg mid-way through a later c loop").                      *)
QuietUntilPrefetch ==
  /\ mode = "continue" /\ ~bpHit => ~enabled
  /\ mode = "skip" /\ ~bpHit /\ hc < since.hc + since.n - Prefetch => ~enabled

(* c stops where a fetch of an address in the range is about to start, and *)
(* never runs the CPU past such a place but for the one it started from.   *)
AtBreak == AtM1Entry /\ InRange(pc, bpRange)

BreakStopsBeforeFetch ==
  [][mode = "continue" =>
       /\ mode' # "continue" => AtBreak
       /\ hc' # hc /\ AtBreak => hc = since.hc]_vars

(* "The next <enter> step executes the instruction and prints its trace":  *)
(* what a step prints after c stopped is the trace of where it stopped.    *)
StepPrintsTheBreak ==
  [][fired' /\ ~fired /\ brokeAt # NoPc => prevPc = brokeAt]_vars

(* An empty line and a number come back to the prompt. *)
LoopsEnd == mode \in {"enter", "skip"} ~> mode \notin {"enter", "skip"}
=============================================================================
