----------------------------- MODULE ReplProofs -----------------------------
(***************************************************************************)
(* Theorems about Repl, for every value of its constants.  The inductive   *)
(* invariant has four parts: the types, the lines not yet taken, the       *)
(* trigger of a step and the tracer, and the breakpoint a continue runs    *)
(* to with the trace a step prints after it.                               *)
(***************************************************************************)
EXTENDS Repl, SequenceTheorems, TLAPS

-----------------------------------------------------------------------------
(* The inductive invariant. *)

TypedLine == [number : Nat \ {0}, command : Commands]

Types ==
  /\ CpuTypeOK /\ BreakpointsTypeOK
  /\ mode \in {"asking", "answered", "enter", "continue", "skip", "bye"}
  /\ phase \in {"clock", "tick"}
  /\ fired \in BOOLEAN /\ timedOut \in BOOLEAN /\ bpHit \in BOOLEAN /\ done \in BOOLEAN
  /\ closed \in BOOLEAN
  /\ answer \in TypedLine \cup {Eof}
  /\ queue \in Seq(TypedLine)
  /\ bpRange \in Ranges \cup {NoRange}
  /\ arrived \in Nat /\ arrived <= MaxLines
  /\ taken \in Nat
  /\ since \in [hc : Nat, n : Nat]
  /\ hc <= HcMax

(* A loop alone is ever between its two halves. *)
Turns == phase = "tick" => Looping

(* The line that was answered and is not taken yet. *)
Held == mode = "answered" /\ answer # Eof

Ahead == IF Held THEN 1 ELSE 0

(* The lines not taken are numbered from taken + 1 on, and nothing is      *)
(* queued where somebody waits or the input has ended.                     *)
Lines ==
  /\ mode = "asking" => queue = <<>>
  /\ mode = "answered" /\ answer = Eof => closed /\ queue = <<>>
  /\ mode # "bye" => taken + Ahead + Len(queue) = arrived
  /\ mode = "bye" => taken + Len(queue) <= arrived
  /\ mode # "bye" => \A i \in 1 .. Len(queue) : queue[i].number = taken + Ahead + i
  /\ Held => answer.number = taken + 1

(* Only a step and a skip have a trigger, and a skip that is done has none. *)
Triggers ==
  /\ mode \notin {"enter", "skip"} => stepCb = NoCallback
  /\ mode = "skip" /\ done => stepCb = NoCallback
  /\ mode = "skip" /\ stepEnableHc >= 0 => stepEnableHc = since.hc + since.n - Prefetch
  /\ mode = "continue" /\ ~bpHit => ~enabled
  /\ mode = "skip" /\ ~bpHit /\ enabled => hc >= since.hc + since.n - Prefetch

(* The slot is what is registered; c runs only with one, and never on from *)
(* a fetch in it.                                                          *)
Breaks ==
  /\ pcBreaks = IF bpRange = NoRange THEN {} ELSE {bpRange}
  /\ mode = "continue" => bpRange # NoRange
  /\ mode = "continue" /\ phase = "tick" => ~bpHit
  /\ mode = "continue" /\ phase = "clock" /\ bpHit => AtBreak
  /\ mode = "continue" /\ phase = "clock" /\ ~bpHit /\ AtBreak => hc = since.hc

(* The hit turned the tracer on with both buffers empty, and the step that *)
(* follows fills them with the instruction there: not begun, in curr, and  *)
(* in prev as it is about to be reported.                                  *)
Fresh == enabled /\ ~curr /\ ~prev /\ pc = brokeAt

NotBegun   == Fresh /\ pos < M1T31
InProgress == enabled /\ curr /\ ~prev /\ currPc = brokeAt
Promoted   == enabled /\ curr /\ prev /\ prevPc = brokeAt /\ pos = M1T31

Traced ==
  /\ mode = "continue" /\ phase = "clock" /\ bpHit => enabled /\ ~curr /\ ~prev
  /\ mode \in {"continue", "skip"} => brokeAt = NoPc
  /\ mode \in {"asking", "answered"} /\ brokeAt # NoPc => Fresh /\ pos = 0
  /\ mode = "enter" /\ brokeAt # NoPc /\ ~fired => NotBegun \/ InProgress \/ Promoted

IInv == Types /\ Turns /\ Lines /\ Triggers /\ Breaks /\ Traced

-----------------------------------------------------------------------------
(* Types. *)

LEMMA CommandTypes ==
  /\ Eof \notin TypedLine
  /\ [op |-> "exit"] \in Commands
  /\ \A r \in Ranges : r # NoRange /\ r \in [lo : Addr, hi : Addr]
<1>1. Eof \notin TypedLine
  BY DEF Eof, TypedLine
<1>2. \A r \in Ranges : r # NoRange /\ r \in [lo : Addr, hi : Addr]
  <2>1. \A r \in Ranges : r \in [lo : Addr, hi : Addr] /\ r.hi \in Nat
    BY ReplAssumption, AddrAssumption
  <2>2. NoRange.hi = -1
    BY DEF NoRange
  <2>3. QED
    BY <2>1, <2>2
<1>3. QED
  BY <1>1, <1>2 DEF Commands

(* The CPU keeps its type at every edge. *)
LEMMA EdgeType == CpuTypeOK /\ ClockEdge => CpuTypeOK'
<1> SUFFICES ASSUME CpuTypeOK, ClockEdge PROVE CpuTypeOK'
  OBVIOUS
<1>1. len' \in BlockLen /\ pos' \in Nat /\ pos' < len' /\ pc' \in Addr /\ nWAIT' \in {0, 1}
  <2>1. CASE UNCHANGED <<pos, len, second, pc>>
    BY <2>1 DEF CpuTypeOK, ClockEdge
  <2>2. CASE pos + 1 < len /\ pos' = pos + 1 /\ UNCHANGED <<len, pc>>
    BY <2>2, BlockAssumption DEF CpuTypeOK, ClockEdge
  <2>3. CASE pos' = 0 /\ len' \in BlockLen /\ pc' \in Addr
    BY <2>3, BlockAssumption DEF CpuTypeOK, ClockEdge
  <2>4. QED
    BY <2>1, <2>2, <2>3 DEF ClockEdge
<1>2. prev' \in BOOLEAN /\ curr' \in BOOLEAN
  BY DEF CpuTypeOK, ClockEdge, Trace, InstructionCompletes
<1>3. second' \in BOOLEAN /\ enabled' \in BOOLEAN
  BY DEF CpuTypeOK, ClockEdge
<1>4. QED
  BY <1>1, <1>2, <1>3 DEF CpuTypeOK

LEMMA SetEnabledType ==
  ASSUME CpuTypeOK, NEW v \in BOOLEAN, SetEnabled(v)
  PROVE  CpuTypeOK'
<1>1. enabled' \in BOOLEAN /\ curr' \in BOOLEAN /\ prev' \in BOOLEAN
  BY DEF CpuTypeOK, SetEnabled
<1>2. UNCHANGED <<pos, len, second, pc, nWAIT>>
  BY DEF SetEnabled
<1>3. QED
  BY <1>1, <1>2 DEF CpuTypeOK

LEMMA StepHcType ==
  ASSUME CpuTypeOK, hc \in Nat, NEW n \in Nat, NEW cb, NEW p \in Nat, NEW on \in BOOLEAN,
         StepHc(n, cb, p, on), UNCHANGED <<pos, len, second, pc, nWAIT>>
  PROVE  CpuTypeOK' /\ stepFireHc' \in Int /\ stepEnableHc' \in Int
<1>1. enabled' \in BOOLEAN
  BY DEF StepHc
<1>2. curr' \in BOOLEAN /\ prev' \in BOOLEAN
  BY DEF CpuTypeOK, StepHc
<1>3. stepFireHc' \in Int /\ stepEnableHc' \in Int
  BY DEF StepHc
<1>4. QED
  BY <1>1, <1>2, <1>3 DEF CpuTypeOK

(* Asking again takes the first line that is queued, if there is one.      *)
LEMMA AskType ==
  ASSUME Types, Ask
  PROVE  /\ mode' \in {"asking", "answered"}
         /\ answer' \in TypedLine \cup {Eof}
         /\ queue' \in Seq(TypedLine)
<1>1. queue \in Seq(TypedLine)
  BY DEF Types
<1>2. CASE queue # <<>>
  <2>1. Head(queue) \in TypedLine /\ Tail(queue) \in Seq(TypedLine)
    BY <1>1, <1>2, HeadTailProperties
  <2>2. QED
    BY <1>2, <2>1 DEF Ask
<1>3. CASE queue = <<>>
  BY <1>1, <1>3 DEF Ask
<1>4. QED
  BY <1>2, <1>3

LEMMA LineTypes == Types /\ (Line \/ Close) => Types'
<1> SUFFICES ASSUME Types, Line \/ Close PROVE Types'
  OBVIOUS
<1>1. UNCHANGED <<cpuVars, hc, pcBreaks, triggerVars, phase, flags, bpRange, since>>
  BY DEF Line, Close, Idle
<1>2. CpuTypeOK' /\ BreakpointsTypeOK'
  BY <1>1 DEF Types, CpuTypeOK, BreakpointsTypeOK, cpuVars, triggerVars
<1>3. /\ mode' \in {"asking", "answered", "enter", "continue", "skip", "bye"}
      /\ answer' \in TypedLine \cup {Eof} /\ queue' \in Seq(TypedLine)
      /\ arrived' \in Nat /\ arrived' <= MaxLines /\ closed' \in BOOLEAN /\ taken' \in Nat
  <2>1. CASE Line
    <3>1. PICK command \in Commands : ReceiveLine(command)
      BY <2>1 DEF Line
    <3>2. Numbered(command) \in TypedLine
      BY DEF Numbered, TypedLine, Types
    <3>3. Append(queue, Numbered(command)) \in Seq(TypedLine)
      BY <3>2, AppendProperties DEF Types
    <3>4. arrived' = arrived + 1 /\ arrived + 1 <= MaxLines
      BY <3>1, <2>1, ReplAssumption DEF ReceiveLine, Line, Types
    <3>5. QED
      BY <3>1, <3>2, <3>3, <3>4 DEF ReceiveLine, Types
  <2>2. CASE Close
    BY <2>2 DEF Close, Types
  <2>3. QED
    BY <2>1, <2>2
<1>4. QED
  BY <1>1, <1>2, <1>3 DEF Types, flags

LEMMA CommandTypesKept == Types /\ Command => Types'
<1> SUFFICES ASSUME Types, Command PROVE Types'
  OBVIOUS
<1>1. answer \in TypedLine \/ answer.command.op = "exit"
  BY DEF Types, Eof
<1>2. \A l \in TypedLine : /\ l.command.op = "break" => l.command.range \in Ranges
                           /\ l.command.op = "skip" => l.command.n \in Nat
  BY ReplAssumption DEF TypedLine, Commands
<1>3. CASE Leave
  <2>1. UNCHANGED <<cpuVars, hc, pcBreaks, triggerVars, phase, flags, bpRange, since>>
    BY <1>3 DEF Leave, Idle
  <2>2. CpuTypeOK' /\ BreakpointsTypeOK'
    BY <2>1 DEF Types, CpuTypeOK, BreakpointsTypeOK, cpuVars, triggerVars
  <2>3. QED
    BY <1>3, <2>1, <2>2 DEF Leave, Types, flags
<1>4. CASE OnlyPrints
  <2>1. UNCHANGED <<cpuVars, hc, pcBreaks, triggerVars, phase, flags, bpRange, since>>
    BY <1>4 DEF OnlyPrints, Idle
  <2>2. CpuTypeOK' /\ BreakpointsTypeOK'
    BY <2>1 DEF Types, CpuTypeOK, BreakpointsTypeOK, cpuVars, triggerVars
  <2>3. QED
    BY <1>4, <2>1, <2>2, AskType DEF OnlyPrints, Take, Types, flags
<1>5. CASE SetBreak
  <2>1. bpRange' \in Ranges \cup {NoRange} /\ pcBreaks' \subseteq [lo : Addr, hi : Addr]
    <3>1. CASE answer.command.op = "break"
      <4>1. answer.command.range \in Ranges
        BY <3>1, <1>1, <1>2
      <4>2. QED
        BY <3>1, <4>1, <1>5, CommandTypes DEF SetBreak, Replaced, Types, BreakpointsTypeOK
    <3>2. CASE answer.command.op # "break"
      BY <3>2, <1>5 DEF SetBreak, Types, BreakpointsTypeOK
    <3>3. QED
      BY <3>1, <3>2
  <2>2. UNCHANGED <<cpuVars, hc, triggerVars, phase, fired, timedOut, done, since>>
    BY <1>5 DEF SetBreak
  <2>3. CpuTypeOK' /\ BreakpointsTypeOK'
    BY <2>1, <2>2 DEF Types, CpuTypeOK, BreakpointsTypeOK, cpuVars, triggerVars
  <2>4. bpHit' = FALSE /\ Take /\ Ask
    BY <1>5 DEF SetBreak
  <2>5. /\ mode' \in {"asking", "answered"} /\ answer' \in TypedLine \cup {Eof}
        /\ queue' \in Seq(TypedLine)
    BY <2>4, AskType
  <2>6. closed' = closed /\ arrived' = arrived /\ taken' \in Nat
    BY <2>4 DEF Take, Types
  <2>7. QED
    BY <2>1, <2>2, <2>3, <2>4, <2>5, <2>6 DEF Types
<1>6. ASSUME NEW loop \in {"enter", "continue", "skip"}, NEW n \in Nat, Begin(loop, n),
             CpuTypeOK', stepFireHc' \in Int, stepEnableHc' \in Int,
             fired' \in BOOLEAN, timedOut' \in BOOLEAN, bpHit' \in BOOLEAN, done' \in BOOLEAN
      PROVE  Types'
  <2>1. since' \in [hc : Nat, n : Nat]
    BY <1>6 DEF Begin, Types, BreakpointsTypeOK
  <2>2. BreakpointsTypeOK'
    BY <1>6 DEF Begin, Types, BreakpointsTypeOK
  <2>3. QED
    BY <1>6, <2>1, <2>2 DEF Begin, Take, Types
<1>7. CASE Enter
  <2>1. CpuTypeOK' /\ stepFireHc' \in Int /\ stepEnableHc' \in Int
    BY <1>7, StepHcType, ReplAssumption
       DEF Enter, Begin, Types, CpuTypeOK, BreakpointsTypeOK
  <2>2. QED
    BY <1>6, <1>7, <2>1, ReplAssumption DEF Enter, Types
<1>8. CASE Continue
  <2>1. CpuTypeOK' /\ stepFireHc' \in Int /\ stepEnableHc' \in Int
    BY <1>8 DEF Continue, StopTracing, Begin, triggerVars, Types, CpuTypeOK, BreakpointsTypeOK
  <2>2. QED
    BY <1>6, <1>8, <2>1 DEF Continue, Types
<1>9. CASE Skip
  <2>1. answer.command.n \in Nat
    BY <1>1, <1>2, <1>9 DEF Skip
  <2>2. CpuTypeOK' /\ stepFireHc' \in Int /\ stepEnableHc' \in Int
    BY <1>9, <2>1, StepHcType, ReplAssumption DEF Skip, Begin, Types, BreakpointsTypeOK
  <2>3. QED
    BY <1>6, <1>9, <2>1, <2>2 DEF Skip, Types
<1>10. QED
  BY <1>3, <1>4, <1>5, <1>7, <1>8, <1>9 DEF Command

LEMMA LoopTypes == Types /\ Loop => Types'
<1> SUFFICES ASSUME Types, Loop PROVE Types'
  OBVIOUS
<1>1. CASE Clock
  <2>1. CpuTypeOK'
    BY <1>1, EdgeType DEF Clock, Types
  <2>2. BreakpointsTypeOK' /\ hc' <= HcMax
    BY <1>1, ReplAssumption DEF Clock, NextHc, triggerVars, Types, BreakpointsTypeOK
  <2>3. fired' \in BOOLEAN
    BY <1>1 DEF Clock, Types
  <2>4. QED
    BY <1>1, <2>1, <2>2, <2>3 DEF Clock, inputVars, Types
<1>2. CASE Tick
  <2>1. (enabled \/ PcMatches \/ StepEnables) \in BOOLEAN
    BY DEF Types, CpuTypeOK, PcMatches, StepEnables
  <2>2. CpuTypeOK'
    BY <1>2, <2>1, SetEnabledType DEF Tick, TickAfterEdge, Types
  <2>3. BreakpointsTypeOK' /\ hc' = hc
    BY <1>2 DEF Tick, TickAfterEdge, Types, BreakpointsTypeOK
  <2>4. bpHit' \in BOOLEAN /\ timedOut' \in BOOLEAN /\ done' \in BOOLEAN
    BY <1>2 DEF Tick
  <2>5. QED
    BY <1>2, <2>2, <2>3, <2>4 DEF Tick, inputVars, Types
<1>3. CASE Finish
  <2>1. UNCHANGED <<cpuVars, hc, pcBreaks, phase, flags, bpRange, since>>
    BY <1>3 DEF Finish
  <2>2. CpuTypeOK'
    BY <2>1 DEF Types, CpuTypeOK, cpuVars
  <2>3. BreakpointsTypeOK'
    BY <1>3, <2>1 DEF Finish, AfterEnter, CancelStepHc, triggerVars, Types, BreakpointsTypeOK
  <2>4. QED
    BY <1>3, <2>1, <2>2, <2>3, AskType DEF Finish, flags, Types
<1>4. QED
  BY <1>1, <1>2, <1>3 DEF Loop

LEMMA StutterKeeps == IInv /\ UNCHANGED vars => IInv'
<1> SUFFICES ASSUME IInv, UNCHANGED vars PROVE IInv'
  OBVIOUS
<1> USE DEF vars, ownVars, cpuVars, triggerVars, flags, inputVars, traceVars
<1>1. Types'
  BY DEF IInv, Types, CpuTypeOK, BreakpointsTypeOK
<1>2. Turns' /\ Lines'
  BY DEF IInv, Turns, Looping, Lines, Held, Ahead
<1>3. Triggers' /\ Breaks' /\ Traced'
  BY DEF IInv, Triggers, Breaks, AtBreak, AtM1Entry, InRange, Traced, Fresh, NotBegun,
         InProgress, Promoted
<1>4. QED
  BY <1>1, <1>2, <1>3 DEF IInv

LEMMA NextTypes == Types /\ Next => Types'
  BY LineTypes, CommandTypesKept, LoopTypes DEF Next

-----------------------------------------------------------------------------
(* The lines. *)

LEMMA InitIInv == Init => IInv
<1> SUFFICES ASSUME Init PROVE IInv
  OBVIOUS
<1> USE DEF Init, CpuInit, BreakpointsInit
<1>1. Types
  <2>1. CpuTypeOK /\ BreakpointsTypeOK
    <3>1. len \in Nat /\ len > 0
      BY BlockAssumption
    <3>2. CpuTypeOK
      BY <3>1 DEF CpuTypeOK
    <3>3. QED
      BY <3>2 DEF BreakpointsTypeOK
  <2>2. hc <= HcMax /\ arrived <= MaxLines
    BY ReplAssumption
  <2>3. queue \in Seq(TypedLine) /\ since \in [hc : Nat, n : Nat]
    BY EmptySeq
  <2>4. QED
    BY <2>1, <2>2, <2>3 DEF Types
<1>2. Turns /\ Lines
  BY EmptySeq DEF Turns, Looping, Lines, Held, Ahead
<1>3. Triggers /\ Breaks /\ Traced
  BY DEF Triggers, Breaks, AtBreak, Traced
<1>4. QED
  BY <1>1, <1>2, <1>3 DEF IInv

(* Lines numbered from the next one on stay so when the first is answered. *)
LEMMA AskLines ==
  ASSUME Types, Ask, taken' \in Nat, UNCHANGED <<arrived, closed>>,
         taken' + Len(queue) = arrived,
         \A i \in 1 .. Len(queue) : queue[i].number = taken' + i
  PROVE  Lines'
<1>1. queue \in Seq(TypedLine) /\ Len(queue) \in Nat
  BY LenProperties DEF Types
<1>2. CASE queue # <<>>
  <2>1. /\ Head(queue) = queue[1] /\ Head(queue) \in TypedLine /\ Len(queue) >= 1
        /\ Len(Tail(queue)) = Len(queue) - 1
        /\ \A i \in 1 .. Len(Tail(queue)) : Tail(queue)[i] = queue[i + 1]
    BY <1>1, <1>2, HeadTailProperties, EmptySeq
  <2>2. mode' = "answered" /\ answer' = Head(queue) /\ queue' = Tail(queue)
    BY <1>2 DEF Ask
  <2>3. Held' /\ Ahead' = 1
    BY <2>1, <2>2, CommandTypes DEF Held, Ahead
  <2>4. taken' + 1 + Len(queue') = arrived'
    BY <1>1, <2>1, <2>2
  <2>5. \A i \in 1 .. Len(queue') : queue'[i].number = taken' + 1 + i
    <3> TAKE i \in 1 .. Len(queue')
    <3>1. i + 1 \in 1 .. Len(queue)
      BY <1>1, <2>1, <2>2
    <3>2. queue'[i] = queue[i + 1]
      BY <2>1, <2>2
    <3>3. QED
      BY <3>1, <3>2
  <2>6. answer'.number = taken' + 1
    BY <1>1, <2>1, <2>2
  <2>7. answer' # Eof
    BY <2>3 DEF Held
  <2>8. QED
    BY <2>2, <2>3, <2>4, <2>5, <2>6, <2>7 DEF Lines
<1>3. CASE queue = <<>>
  <2>1. queue' = <<>> /\ answer' = Eof /\ mode' \in {"asking", "answered"}
        /\ (mode' = "answered" => closed')
    BY <1>3 DEF Ask
  <2>2. ~Held' /\ Ahead' = 0
    BY <2>1 DEF Held, Ahead
  <2>3. taken' + 0 + Len(queue') = arrived'
    BY <1>3, <2>1
  <2>4. Len(queue') = 0
    BY <2>1, EmptySeq
  <2>5. QED
    BY <2>1, <2>2, <2>3, <2>4 DEF Lines
<1>4. QED
  BY <1>2, <1>3

(* A line is answered at once where somebody waits, else goes to the end.  *)
LEMMA LineLines == Types /\ Lines /\ (Line \/ Close) => Lines'
<1> SUFFICES ASSUME Types, Lines, Line \/ Close PROVE Lines'
  OBVIOUS
<1>1. queue \in Seq(TypedLine) /\ Len(queue) \in Nat /\ arrived \in Nat /\ taken \in Nat
  BY LenProperties DEF Types
<1>2. mode \in {"asking", "answered"} /\ ~closed
  BY DEF Line, Close, Awaiting
<1>3. Lines!1 /\ Lines!2 /\ taken + Ahead + Len(queue) = arrived
      /\ \A i \in 1 .. Len(queue) : queue[i].number = taken + Ahead + i
  BY <1>2 DEF Lines
<1>4. CASE Line
  <2>1. PICK command \in Commands : ReceiveLine(command)
    BY <1>4 DEF Line
  <2>2. Numbered(command) \in TypedLine /\ Numbered(command).number = arrived + 1
    BY <1>1 DEF Numbered, TypedLine
  <2>3. taken' = taken /\ arrived' = arrived + 1 /\ closed' = closed
    BY <2>1 DEF ReceiveLine
  <2>4. CASE mode = "asking"
    <3>1. mode' = "answered" /\ answer' = Numbered(command) /\ queue' = queue
      BY <2>1, <2>4 DEF ReceiveLine
    <3>2. queue = <<>> /\ Len(queue) = 0 /\ Ahead = 0
      BY <2>4, <1>3, EmptySeq DEF Ahead, Held
    <3>3. Held' /\ Ahead' = 1 /\ answer' # Eof
      BY <3>1, <2>2, CommandTypes DEF Held, Ahead
    <3>4. taken = arrived
      BY <3>2, <1>1, <1>3
    <3>5. taken' + 1 + Len(queue') = arrived' /\ answer'.number = taken' + 1
      BY <3>1, <3>2, <3>4, <2>2, <2>3, <1>1
    <3>6. QED
      BY <3>1, <3>2, <3>3, <3>5 DEF Lines
  <2>5. CASE mode # "asking"
    <3>1. mode = "answered" /\ answer # Eof
      BY <1>2, <1>3, <2>5
    <3>2. UNCHANGED <<mode, answer>> /\ queue' = Append(queue, Numbered(command))
      BY <2>1, <2>5 DEF ReceiveLine
    <3>3. Held /\ Ahead = 1 /\ Held' /\ Ahead' = 1 /\ answer.number = taken + 1
      BY <3>1, <3>2 DEF Held, Ahead, Lines
    <3>4. /\ Len(queue') = Len(queue) + 1 /\ queue'[Len(queue) + 1] = Numbered(command)
          /\ \A i \in 1 .. Len(queue) : queue'[i] = queue[i]
      BY <3>2, <1>1, <2>2, AppendProperties
    <3>5. taken' + 1 + Len(queue') = arrived'
      <4>1. taken + 1 + Len(queue) = arrived
        BY <3>3, <1>3
      <4>2. Len(queue') = Len(queue) + 1
        BY <3>4
      <4>3. QED
        BY <4>1, <4>2, <2>3, <1>1
    <3>6. \A i \in 1 .. Len(queue') : queue'[i].number = taken' + 1 + i
      <4> TAKE i \in 1 .. Len(queue')
      <4>1. CASE i \in 1 .. Len(queue)
        BY <4>1, <3>3, <3>4, <2>3, <1>1, <1>3
      <4>2. CASE i = Len(queue) + 1
        BY <4>2, <3>3, <3>4, <2>2, <2>3, <1>1, <1>3
      <4>3. QED
        BY <4>1, <4>2, <3>4, <1>1
    <3>7. answer'.number = taken' + 1 /\ mode' = "answered" /\ answer' # Eof
      BY <3>1, <3>2, <3>3, <2>3
    <3>8. QED
      BY <3>3, <3>5, <3>6, <3>7 DEF Lines
  <2>6. QED
    BY <2>4, <2>5
<1>5. CASE Close
  <2>1. UNCHANGED <<queue, arrived, taken>> /\ closed'
    BY <1>5 DEF Close
  <2>2. CASE mode = "asking"
    <3>1. mode' = "answered" /\ answer' = Eof /\ queue = <<>>
      BY <1>3, <1>5, <2>2 DEF Close
    <3>2. ~Held /\ ~Held' /\ Ahead = 0 /\ Ahead' = 0
      BY <3>1, <2>2 DEF Held, Ahead
    <3>3. QED
      BY <1>3, <2>1, <3>1, <3>2 DEF Lines
  <2>3. CASE mode # "asking"
    <3>1. mode = "answered" /\ answer # Eof /\ UNCHANGED <<mode, answer>>
      BY <1>2, <1>3, <1>5, <2>3 DEF Close
    <3>2. Held /\ Held' /\ Ahead = 1 /\ Ahead' = 1
      BY <3>1 DEF Held, Ahead
    <3>3. answer.number = taken + 1
      BY <3>2 DEF Lines
    <3>4. QED
      BY <1>3, <2>1, <3>1, <3>2, <3>3 DEF Lines
  <2>4. QED
    BY <2>2, <2>3
<1>6. QED
  BY <1>4, <1>5

(* A command is one line taken; the end of the input is none.              *)
LEMMA CommandLines == Types /\ Lines /\ Command => Lines'
<1> SUFFICES ASSUME Types, Lines, Command PROVE Lines'
  OBVIOUS
<1>1. queue \in Seq(TypedLine) /\ Len(queue) \in Nat /\ arrived \in Nat /\ taken \in Nat
  BY LenProperties DEF Types
<1>2. mode = "answered"
  BY DEF Command
<1>3. taken + Ahead + Len(queue) = arrived
      /\ \A i \in 1 .. Len(queue) : queue[i].number = taken + Ahead + i
  BY <1>2 DEF Lines
<1>4. CASE Leave
  <2>1. mode' = "bye" /\ UNCHANGED <<answer, queue, arrived>>
    BY <1>4 DEF Leave
  <2>2. taken' = taken + Ahead
    BY <1>1, <1>2, <1>4 DEF Leave, Ahead, Held
  <2>3. QED
    BY <1>1, <1>3, <2>1, <2>2 DEF Lines, Held
<1>5. CASE answer.command.op # "exit"
  <2>1. Held /\ Ahead = 1
    BY <1>2, <1>5 DEF Held, Ahead, Eof
  <2>2. taken + 1 + Len(queue) = arrived
        /\ \A i \in 1 .. Len(queue) : queue[i].number = (taken + 1) + i
    BY <1>3, <2>1
  <2>3. taken' = taken + 1 /\ UNCHANGED <<arrived, closed>>
    BY <1>5 DEF Command, Leave, OnlyPrints, SetBreak, Enter, Continue, Skip, Begin, Take
  <2>4. CASE Ask
    <3>1. taken' \in Nat /\ taken' + Len(queue) = arrived
          /\ \A i \in 1 .. Len(queue) : queue[i].number = taken' + i
      BY <1>1, <2>2, <2>3
    <3>2. QED
      BY <2>3, <2>4, <3>1, AskLines
  <2>5. CASE queue' = queue /\ mode' \in {"enter", "continue", "skip"}
    <3>1. ~Held' /\ Ahead' = 0
      BY <2>5 DEF Held, Ahead
    <3>2. taken' + 0 + Len(queue') = arrived'
          /\ \A i \in 1 .. Len(queue') : queue'[i].number = taken' + 0 + i
      BY <1>1, <2>2, <2>3, <2>5
    <3>3. QED
      BY <2>5, <3>1, <3>2 DEF Lines
  <2>6. QED
    BY <1>5, <2>4, <2>5
       DEF Command, Leave, OnlyPrints, SetBreak, Enter, Continue, Skip, Begin
<1>6. QED
  BY <1>4, <1>5 DEF Command, OnlyPrints, SetBreak, Enter, Continue, Skip

(* While a loop runs no line comes; where it ends, the next is answered.   *)
LEMMA LoopLines == Types /\ Turns /\ Lines /\ Loop => Lines'
<1> SUFFICES ASSUME Types, Turns, Lines, Loop PROVE Lines'
  OBVIOUS
<1>1. queue \in Seq(TypedLine) /\ Len(queue) \in Nat /\ arrived \in Nat /\ taken \in Nat
  BY LenProperties DEF Types
<1>2. mode \in {"enter", "continue", "skip"}
  BY DEF Loop, Clock, Tick, Finish, Turns, Looping
<1>3. ~Held /\ Ahead = 0
  BY <1>2 DEF Held, Ahead
<1>4. taken + 0 + Len(queue) = arrived
      /\ \A i \in 1 .. Len(queue) : queue[i].number = taken + 0 + i
  BY <1>2, <1>3 DEF Lines
<1>5. CASE Clock \/ Tick
  <2>1. UNCHANGED <<mode, inputVars>>
    BY <1>5 DEF Clock, Tick
  <2>2. ~Held' /\ Ahead' = 0
    BY <1>2, <2>1 DEF Held, Ahead
  <2>3. QED
    BY <1>2, <1>4, <2>1, <2>2 DEF Lines, inputVars
<1>6. CASE Finish
  <2>1. Ask /\ UNCHANGED <<taken, arrived, closed>>
    BY <1>6 DEF Finish
  <2>2. taken' \in Nat /\ taken' + Len(queue) = arrived
        /\ \A i \in 1 .. Len(queue) : queue[i].number = taken' + i
    BY <1>1, <1>4, <2>1
  <2>3. QED
    BY <2>1, <2>2, AskLines
<1>7. QED
  BY <1>5, <1>6 DEF Loop

LEMMA NextLines == Types /\ Turns /\ Lines /\ Next => Lines' /\ Turns'
<1> SUFFICES ASSUME Types, Turns, Lines, Next PROVE Lines' /\ Turns'
  OBVIOUS
<1>1. Lines'
  BY LineLines, CommandLines, LoopLines DEF Next
<1>2. Turns'
  <2>1. CASE Line \/ Close
    <3>1. phase' = phase /\ mode \in {"asking", "answered"}
      BY <2>1 DEF Line, Close, Idle, Awaiting
    <3>2. QED
      BY <3>1 DEF Turns, Looping
  <2>2. CASE Command
    <3>1. mode = "answered"
      BY <2>2 DEF Command
    <3>2. phase' = phase
      BY <2>2 DEF Command, Leave, OnlyPrints, Idle, SetBreak, Enter, Continue, Skip, Begin
    <3>3. QED
      BY <3>1, <3>2 DEF Turns, Looping
  <2>3. CASE Clock
    BY <2>3 DEF Clock, Turns, Looping
  <2>4. CASE Tick
    BY <2>4 DEF Tick, Turns, Looping
  <2>5. CASE Finish
    BY <2>5 DEF Finish, Turns, Looping
  <2>6. QED
    BY <2>1, <2>2, <2>3, <2>4, <2>5 DEF Next, Loop
<1>3. QED
  BY <1>1, <1>2

-----------------------------------------------------------------------------
(* The trigger and the tracer. *)

LEMMA NextTriggers == Types /\ Turns /\ Triggers /\ Breaks /\ Next => Triggers'
<1> SUFFICES ASSUME Types, Turns, Triggers, Breaks, Next PROVE Triggers'
  OBVIOUS
<1>1. hc \in Nat /\ since.hc \in Nat /\ since.n \in Nat /\ Prefetch \in Nat
  BY ReplAssumption DEF Types, BreakpointsTypeOK
<1>2. CASE Line \/ Close
  <2>1. mode \in {"asking", "answered"} /\ mode' \in {"asking", "answered"}
    BY <1>2 DEF Line, Close, Awaiting, ReceiveLine
  <2>2. stepCb' = stepCb
    BY <1>2 DEF Line, Close, Idle, triggerVars
  <2>3. QED
    BY <2>1, <2>2 DEF Triggers
<1>3. CASE Command
  <2>1. mode = "answered" /\ stepCb = NoCallback
    BY <1>3 DEF Command, Triggers
  <2>2. CASE Leave \/ OnlyPrints \/ SetBreak
    <3>1. mode' \in {"asking", "answered", "bye"}
      BY <2>2 DEF Leave, OnlyPrints, SetBreak, Ask
    <3>2. stepCb' = stepCb
      BY <2>2 DEF Leave, OnlyPrints, SetBreak, Idle, triggerVars
    <3>3. QED
      BY <2>1, <3>1, <3>2 DEF Triggers
  <2>3. CASE Enter
    <3>1. mode' = "enter"
      BY <2>3 DEF Enter, Begin
    <3>2. QED
      BY <3>1 DEF Triggers
  <2>4. CASE Continue
    <3>1. mode' = "continue" /\ stepCb' = stepCb /\ ~enabled'
      BY <2>4 DEF Continue, Begin, StopTracing, triggerVars
    <3>2. QED
      BY <2>1, <3>1 DEF Triggers
  <2>5. CASE Skip
    <3>1. mode' = "skip" /\ ~done' /\ hc' = hc /\ since' = [hc |-> hc, n |-> answer.command.n]
      BY <2>5 DEF Skip, Begin
    <3>2. /\ stepEnableHc' = IF hc + answer.command.n - Prefetch <= hc THEN -1
                             ELSE hc + answer.command.n - Prefetch
          /\ enabled' => hc + answer.command.n - Prefetch <= hc
      BY <2>5 DEF Skip, StepHc
    <3>3. QED
      BY <3>1, <3>2 DEF Triggers
  <2>6. QED
    BY <1>3, <2>2, <2>3, <2>4, <2>5 DEF Command
<1>4. CASE Clock
  <2>1. UNCHANGED <<mode, triggerVars, bpHit, done, since, enabled>> /\ hc' = hc + 1
    BY <1>4 DEF Clock, ClockEdge, NextHc
  <2>2. QED
    BY <1>1, <2>1 DEF Triggers, triggerVars
<1>5. CASE Tick
  <2>1. UNCHANGED <<mode, hc, since>> /\ mode \in {"enter", "continue", "skip"}
    BY <1>5 DEF Tick, TickAfterEdge, Turns, Looping
  <2>2. stepCb' \in {stepCb, NoCallback}
    BY <1>5 DEF Tick, TickAfterEdge
  <2>3. ASSUME mode = "skip", done' PROVE stepCb' = NoCallback
    BY <1>5, <2>3 DEF Tick, TickAfterEdge, Triggers
  <2>4. stepEnableHc' \in {stepEnableHc, -1}
    BY <1>5 DEF Tick, TickAfterEdge
  <2>5. ASSUME ~bpHit' PROVE ~bpHit /\ ~PcMatches
    BY <1>5, <2>5 DEF Tick
  <2>6. enabled' <=> enabled \/ PcMatches \/ StepEnables
    BY <1>5 DEF Tick, TickAfterEdge, SetEnabled
  <2>7. ASSUME mode = "continue", ~bpHit' PROVE ~enabled'
    BY <2>5, <2>6, <2>7 DEF StepEnables, Triggers
  <2>8. ASSUME mode = "skip", ~bpHit', enabled' PROVE hc >= since.hc + since.n - Prefetch
    <3>1. enabled \/ StepEnables
      BY <2>5, <2>6, <2>8
    <3>2. CASE enabled
      BY <2>5, <2>8, <3>2 DEF Triggers
    <3>3. CASE StepEnables
      <4>1. stepEnableHc >= 0 /\ hc >= stepEnableHc
        BY <3>3 DEF StepEnables
      <4>2. QED
        BY <2>8, <4>1 DEF Triggers
    <3>4. QED
      BY <3>1, <3>2, <3>3
  <2>9. /\ mode' \notin {"enter", "skip"} => stepCb' = NoCallback
        /\ mode' = "skip" /\ done' => stepCb' = NoCallback
    BY <2>1, <2>2, <2>3 DEF Triggers
  <2>10. mode' = "skip" /\ stepEnableHc' >= 0 => stepEnableHc' = since'.hc + since'.n - Prefetch
    BY <2>1, <2>4 DEF Triggers
  <2>11. QED
    BY <2>1, <2>7, <2>8, <2>9, <2>10 DEF Triggers
<1>6. CASE Finish
  <2>1. mode' \in {"asking", "answered"}
    BY <1>6 DEF Finish, Ask
  <2>2. stepCb' = NoCallback
    BY <1>6 DEF Finish, AfterEnter, CancelStepHc, Looping, LoopEnds, Triggers, triggerVars
  <2>3. QED
    BY <2>1, <2>2 DEF Triggers
<1>7. QED
  BY <1>2, <1>3, <1>4, <1>5, <1>6 DEF Next, Loop

-----------------------------------------------------------------------------
(* The breakpoint of a continue. *)

LEMMA NextBreaks == Types /\ Turns /\ Breaks /\ Next => Breaks'
<1> SUFFICES ASSUME Types, Turns, Breaks, Next PROVE Breaks'
  OBVIOUS
<1>1. CASE Line \/ Close
  <2>1. mode' \in {"asking", "answered"}
    BY <1>1 DEF Line, Close, Awaiting, ReceiveLine
  <2>2. UNCHANGED <<pcBreaks, bpRange>>
    BY <1>1 DEF Line, Close, Idle
  <2>3. QED
    BY <2>1, <2>2 DEF Breaks
<1>2. CASE Command
  <2>1. mode = "answered" /\ phase = "clock"
    BY <1>2 DEF Command, Turns, Looping, Types
  <2>2. CASE Leave \/ OnlyPrints
    <3>1. mode' \in {"asking", "answered", "bye"} /\ UNCHANGED <<pcBreaks, bpRange>>
      BY <2>2 DEF Leave, OnlyPrints, Ask, Idle
    <3>2. QED
      BY <3>1 DEF Breaks
  <2>3. CASE SetBreak
    <3>1. mode' \in {"asking", "answered"}
      BY <2>3 DEF SetBreak, Ask
    <3>2. pcBreaks \ {bpRange} = {}
      BY DEF Breaks
    <3>3. CASE answer.command.op = "break"
      <4>1. answer.command.range \in Ranges
        BY <3>3 DEF Types, Eof, TypedLine, Commands
      <4>2. bpRange' = answer.command.range /\ pcBreaks' = {bpRange'}
        BY <2>3, <3>2, <3>3 DEF SetBreak, Replaced
      <4>3. QED
        BY <3>1, <4>1, <4>2, CommandTypes DEF Breaks
    <3>4. CASE answer.command.op # "break"
      BY <2>3, <3>1, <3>2, <3>4 DEF SetBreak, Breaks
    <3>5. QED
      BY <3>3, <3>4
  <2>4. CASE Enter \/ Skip
    <3>1. mode' \in {"enter", "skip"} /\ UNCHANGED <<pcBreaks, bpRange>>
      BY <2>4 DEF Enter, Skip, Begin
    <3>2. QED
      BY <3>1 DEF Breaks
  <2>5. CASE Continue
    <3>1. /\ bpRange # NoRange /\ ~bpHit' /\ UNCHANGED <<pcBreaks, bpRange, phase>>
          /\ hc' = hc /\ since'.hc = hc
      BY <2>5 DEF Continue, Begin
    <3>2. QED
      BY <2>1, <3>1 DEF Breaks
  <2>6. QED
    BY <1>2, <2>2, <2>3, <2>4, <2>5 DEF Command
<1>3. CASE Clock
  <2>1. UNCHANGED <<pcBreaks, mode, bpRange, bpHit>> /\ phase' = "tick"
    BY <1>3 DEF Clock
  <2>2. mode = "continue" => ~bpHit
    BY <1>3 DEF Clock, LoopEnds
  <2>3. QED
    BY <2>1, <2>2 DEF Breaks
<1>4. CASE Tick
  <2>1. UNCHANGED <<pcBreaks, mode, bpRange, pos, pc>> /\ phase' = "clock"
    BY <1>4 DEF Tick, TickAfterEdge, SetEnabled
  <2>2. ASSUME mode = "continue" PROVE bpHit' <=> AtBreak'
    <3>1. ~bpHit /\ pcBreaks = {bpRange}
      BY <1>4, <2>2 DEF Tick, Breaks
    <3>2. bpHit' <=> PcMatches
      BY <1>4, <3>1 DEF Tick
    <3>3. QED
      BY <2>1, <3>1, <3>2 DEF PcMatches, AtBreak, AtM1Entry, InRange
  <2>3. QED
    BY <2>1, <2>2 DEF Breaks
<1>5. CASE Finish
  <2>1. mode' \in {"asking", "answered"} /\ UNCHANGED <<pcBreaks, bpRange>>
    BY <1>5 DEF Finish, Ask
  <2>2. QED
    BY <2>1 DEF Breaks
<1>6. QED
  BY <1>1, <1>2, <1>3, <1>4, <1>5 DEF Next, Loop

(* An edge of a step takes the trace from not begun to begun, to promoted, *)
(* and reports it.                                                         *)
LEMMA TraceMoves ==
  ASSUME Types, Clock, mode = "enter", NotBegun \/ InProgress \/ Promoted, brokeAt # NoPc
  PROVE  fired' \/ NotBegun' \/ InProgress' \/ Promoted'
<1> USE DEF NotBegun, InProgress, Promoted, Fresh
<1>1. /\ ClockEdge /\ Trace /\ enabled /\ enabled' /\ brokeAt' = brokeAt
      /\ fired' = (fired \/ InstructionCompletes)
  BY DEF Clock, ClockEdge
<1>2. /\ pos \in Nat /\ len \in Nat /\ pos < len /\ M1T31 \in Nat /\ M1T31 > 2 /\ len > M1T31
      /\ second \in BOOLEAN /\ curr \in BOOLEAN /\ prev \in BOOLEAN
  BY BlockAssumption DEF Types, CpuTypeOK
<1>3. ASSUME pos <= M1T31 - 1 PROVE (pos' = pos \/ pos' = pos + 1) /\ pc' = pc
  <2>1. pos + 1 # len
    BY <1>2, <1>3
  <2>2. QED
    BY <1>1, <2>1 DEF ClockEdge
<1>4. ASSUME pos = M1T31 - 1 PROVE pos' = M1T31
  <2>1. pos + 1 = M1T31 /\ pos + 1 # len /\ ~Waiting
    BY <1>2, <1>4 DEF Waiting
  <2>2. QED
    BY <1>1, <2>1 DEF ClockEdge
<1>5. CASE NotBegun
  <2>1. CASE pos = M1T31 - 1
    <3>1. prev' = curr /\ curr' = TRUE
      BY <1>1, <1>5, <2>1 DEF Trace, StartsAnew
    <3>2. currPc' = pc
      BY <1>1, <1>5, <2>1 DEF Clock
    <3>3. QED
      BY <1>1, <1>5, <3>1, <3>2
  <2>2. CASE pos < M1T31 - 1
    <3>1. ~prev' /\ ~curr'
      BY <1>1, <1>2, <1>5, <2>2 DEF Trace, StartsAnew
    <3>2. pos' < M1T31 /\ pc' = pc
      BY <1>2, <1>3, <2>2
    <3>3. QED
      BY <1>1, <1>5, <3>1, <3>2
  <2>3. QED
    BY <1>2, <1>5, <2>1, <2>2
<1>6. CASE InProgress
  <2>1. CASE pos = M1T31 - 1 /\ ~(second /\ curr)
    <3>1. prev' = curr /\ curr' = TRUE /\ prevPc' = currPc
      BY <1>1, <1>6, <2>1 DEF Trace, StartsAnew, Clock
    <3>2. QED
      BY <1>1, <1>4, <1>6, <2>1, <3>1
  <2>2. CASE ~(pos = M1T31 - 1 /\ ~(second /\ curr))
    <3>1. ~prev' /\ curr' = curr
      BY <1>1, <1>6, <2>2 DEF Trace, StartsAnew
    <3>2. currPc' = currPc
      BY <2>2 DEF Clock, traceVars
    <3>3. QED
      BY <1>1, <1>6, <3>1, <3>2
  <2>3. QED
    BY <2>1, <2>2
<1>7. CASE Promoted
  BY <1>1, <1>7 DEF InstructionCompletes
<1>8. QED
  BY <1>5, <1>6, <1>7

LEMMA NextTraced ==
  Types /\ Turns /\ Triggers /\ Breaks /\ Traced /\ Next => Traced'
<1> SUFFICES ASSUME Types, Turns, Triggers, Breaks, Traced, Next PROVE Traced'
  OBVIOUS
<1>1. CASE Line \/ Close
  <2>1. mode \in {"asking", "answered"} /\ mode' \in {"asking", "answered"}
    BY <1>1 DEF Line, Close, Awaiting, ReceiveLine
  <2>2. UNCHANGED <<cpuVars, brokeAt>>
    BY <1>1 DEF Line, Close, Idle
  <2>3. QED
    BY <2>1, <2>2 DEF Traced, Fresh, cpuVars
<1>2. CASE Command
  <2>1. mode = "answered"
    BY <1>2 DEF Command
  <2>2. CASE Leave \/ OnlyPrints \/ SetBreak
    <3>1. mode' \in {"asking", "answered", "bye"}
      BY <2>2 DEF Leave, OnlyPrints, SetBreak, Ask
    <3>2. UNCHANGED <<cpuVars, brokeAt>>
      BY <2>2 DEF Leave, OnlyPrints, SetBreak, Idle
    <3>3. QED
      BY <2>1, <3>1, <3>2 DEF Traced, Fresh, cpuVars
  <2>3. CASE Enter
    <3>1. mode' = "enter" /\ UNCHANGED <<pos, pc, brokeAt>>
      BY <2>3 DEF Enter, Begin
    <3>2. enabled' = enabled /\ UNCHANGED <<curr, prev>>
      <4>1. ~(hc + EnterLimit - 0 <= hc)
        BY ReplAssumption DEF Types, BreakpointsTypeOK
      <4>2. enabled' = enabled
        BY <2>3, <4>1 DEF Enter, StepHc, Types, CpuTypeOK
      <4>3. QED
        BY <2>3, <4>2 DEF Enter, StepHc
    <3>3. M1T31 > 0
      BY BlockAssumption
    <3>4. QED
      BY <2>1, <3>1, <3>2, <3>3 DEF Traced, Fresh, NotBegun
  <2>4. CASE Continue
    <3>1. mode' = "continue" /\ ~bpHit' /\ brokeAt' = NoPc
      BY <2>4 DEF Continue, Begin
    <3>2. QED
      BY <3>1 DEF Traced
  <2>5. CASE Skip
    <3>1. mode' = "skip" /\ brokeAt' = NoPc
      BY <2>5 DEF Skip, Begin
    <3>2. QED
      BY <3>1 DEF Traced
  <2>6. QED
    BY <1>2, <2>2, <2>3, <2>4, <2>5 DEF Command
<1>3. CASE Clock
  <2>1. UNCHANGED <<mode, bpHit, brokeAt>> /\ phase' = "tick"
        /\ mode \in {"enter", "continue", "skip"}
    BY <1>3 DEF Clock, Looping
  <2>2. ASSUME mode = "enter", brokeAt # NoPc, ~fired'
        PROVE  NotBegun' \/ InProgress' \/ Promoted'
    <3>1. ~fired
      BY <1>3, <2>2 DEF Clock
    <3>2. QED
      BY <1>3, <2>2, <3>1, TraceMoves DEF Traced
  <2>3. QED
    BY <2>1, <2>2 DEF Traced
<1>4. CASE Tick
  <2>1. UNCHANGED <<mode, brokeAt, fired, pos, pc, traceVars>>
        /\ mode \in {"enter", "continue", "skip"}
    BY <1>4 DEF Tick, TickAfterEdge, SetEnabled, Turns, Looping
  <2>2. ASSUME mode = "continue", bpHit' PROVE enabled' /\ ~curr' /\ ~prev'
    <3>1. ~bpHit /\ ~enabled
      BY <1>4, <2>2 DEF Tick, Breaks, Triggers
    <3>2. PcMatches
      BY <1>4, <2>2, <3>1 DEF Tick
    <3>3. QED
      BY <1>4, <3>1, <3>2 DEF Tick, TickAfterEdge, SetEnabled
  <2>3. ASSUME enabled PROVE enabled' /\ UNCHANGED <<curr, prev>>
    BY <1>4, <2>3 DEF Tick, TickAfterEdge, SetEnabled
  <2>4. ASSUME mode = "enter", brokeAt # NoPc, ~fired
        PROVE  NotBegun' \/ InProgress' \/ Promoted'
    BY <2>1, <2>3, <2>4 DEF Traced, NotBegun, InProgress, Promoted, Fresh, traceVars
  <2>5. QED
    BY <2>1, <2>2, <2>4 DEF Traced
<1>5. CASE Finish
  <2>1. mode' \in {"asking", "answered"} /\ UNCHANGED cpuVars /\ phase = "clock" /\ LoopEnds
    BY <1>5 DEF Finish, Ask
  <2>2. ASSUME brokeAt' # NoPc PROVE Fresh' /\ pos' = 0
    <3>1. mode = "continue" /\ brokeAt' = pc
      BY <1>5, <2>2 DEF Finish
    <3>2. bpHit
      BY <2>1, <3>1 DEF LoopEnds
    <3>3. pos = 0 /\ enabled /\ ~curr /\ ~prev
      BY <2>1, <3>1, <3>2 DEF Breaks, AtBreak, AtM1Entry, Traced
    <3>4. QED
      BY <2>1, <3>1, <3>3 DEF Fresh, cpuVars
  <2>3. QED
    BY <2>1, <2>2 DEF Traced
<1>6. QED
  BY <1>1, <1>2, <1>3, <1>4, <1>5 DEF Next, Loop

-----------------------------------------------------------------------------
(* The theorems. *)

LEMMA Invariant == Spec => []IInv
<1>1. IInv /\ [Next]_vars => IInv'
  BY NextTypes, NextLines, NextTriggers, NextBreaks, NextTraced, StutterKeeps DEF IInv
<1>2. QED
  BY InitIInv, <1>1, PTL DEF Spec

(* Types, and the bounds the lines and the clock keep. *)
THEOREM TypeCorrect == Spec => []TypeOK
<1>1. IInv => TypeOK
  <2> SUFFICES ASSUME IInv PROVE TypeOK
    OBVIOUS
  <2>1. queue \in Seq(TypedLine) /\ Len(queue) \in Nat
    BY LenProperties DEF IInv, Types
  <2>2. Len(queue) <= MaxLines /\ taken <= arrived
    BY <2>1, ReplAssumption DEF IInv, Types, Lines, Ahead
  <2>3. QED
    BY <2>2 DEF IInv, Types, TypeOK
<1>2. QED
  BY Invariant, <1>1, PTL

(* Lines are taken in the order they were typed, and none is lost: what is *)
(* answered and what is queued are exactly those between.                  *)
THEOREM NoLineIsLost == Spec => []LinesInOrder
<1>1. IInv => LinesInOrder
  <2> SUFFICES ASSUME IInv, mode # "bye"
               PROVE  /\ Len(Pending) = arrived - taken
                      /\ \A i \in 1 .. Len(Pending) : Pending[i].number = taken + i
    BY DEF LinesInOrder
  <2>1. queue \in Seq(TypedLine) /\ Len(queue) \in Nat /\ arrived \in Nat /\ taken \in Nat
    BY LenProperties DEF IInv, Types
  <2>2. taken + Ahead + Len(queue) = arrived
        /\ \A i \in 1 .. Len(queue) : queue[i].number = taken + Ahead + i
    BY DEF IInv, Lines
  <2>3. CASE Held
    <3>1. Ahead = 1 /\ Pending = <<answer>> \o queue
      BY <2>3 DEF Held, Ahead, Pending
    <3>2. answer \in TypedLine /\ answer.number = taken + 1
      BY <2>3 DEF Held, IInv, Types, Lines
    <3>3. <<answer>> \in Seq(TypedLine) /\ Len(<<answer>>) = 1 /\ <<answer>>[1] = answer
      BY <3>2
    <3>4. /\ Len(Pending) = 1 + Len(queue)
          /\ \A i \in 1 .. (1 + Len(queue)) :
               Pending[i] = IF i <= 1 THEN <<answer>>[i] ELSE queue[i - 1]
      BY <2>1, <3>1, <3>3, ConcatProperties
    <3>5. Len(Pending) = arrived - taken
      BY <2>1, <2>2, <3>1, <3>4
    <3>6. ASSUME NEW i \in 1 .. Len(Pending) PROVE Pending[i].number = taken + i
      <4>1. CASE i = 1
        BY <4>1, <3>2, <3>3, <3>4, <2>1
      <4>2. CASE i # 1
        <5>1. i - 1 \in 1 .. Len(queue) /\ Pending[i] = queue[i - 1]
          BY <4>2, <3>4, <2>1
        <5>2. queue[i - 1].number = taken + 1 + (i - 1)
          BY <5>1, <2>2, <3>1
        <5>3. QED
          BY <5>1, <5>2, <2>1
      <4>3. QED
        BY <4>1, <4>2
    <3>7. QED
      BY <3>5, <3>6
  <2>4. CASE ~Held
    <3>1. Ahead = 0 /\ Pending = <<>> \o queue
      BY <2>4 DEF Held, Ahead, Pending
    <3>2. Pending = queue
      BY <2>1, <3>1, ConcatEmptySeq
    <3>3. QED
      BY <2>1, <2>2, <3>1, <3>2
  <2>5. QED
    BY <2>3, <2>4
<1>2. QED
  BY Invariant, <1>1, PTL

(* No trigger of an earlier command turns the tracer on while c runs, nor  *)
(* while a skip does before its own prefetch.                              *)
THEOREM NoStaleTrigger == Spec => []QuietUntilPrefetch
<1>1. IInv => QuietUntilPrefetch
  <2> SUFFICES ASSUME IInv PROVE QuietUntilPrefetch
    OBVIOUS
  <2>1. hc \in Nat /\ since.hc \in Nat /\ since.n \in Nat /\ Prefetch \in Nat
    BY ReplAssumption DEF IInv, Types, BreakpointsTypeOK
  <2>2. QED
    BY <2>1 DEF IInv, Triggers, QuietUntilPrefetch
<1>2. QED
  BY Invariant, <1>1, PTL

(* c stops where a fetch of its range is about to start, and runs past no  *)
(* such place but the one it started from.                                 *)
THEOREM ContinueStopsAtTheBreak == Spec => BreakStopsBeforeFetch
<1> DEFINE Step == mode = "continue" =>
                     /\ mode' # "continue" => AtBreak
                     /\ hc' # hc /\ AtBreak => hc = since.hc
<1>1. IInv /\ [Next]_vars => Step
  <2> SUFFICES ASSUME IInv, [Next]_vars, mode = "continue"
               PROVE  /\ mode' # "continue" => AtBreak
                      /\ hc' # hc /\ AtBreak => hc = since.hc
    OBVIOUS
  <2>1. CASE Clock
    <3>1. mode' = mode /\ phase = "clock" /\ ~bpHit
      BY <2>1 DEF Clock, LoopEnds
    <3>2. QED
      BY <3>1 DEF IInv, Breaks
  <2>2. CASE Tick
    BY <2>2 DEF Tick, TickAfterEdge
  <2>3. CASE Finish
    <3>1. hc' = hc /\ phase = "clock" /\ bpHit
      BY <2>3 DEF Finish, LoopEnds
    <3>2. QED
      BY <3>1 DEF IInv, Breaks
  <2>4. CASE Line \/ Close \/ Command
    BY <2>4 DEF Line, Close, Awaiting, Command
  <2>5. CASE UNCHANGED vars
    BY <2>5 DEF vars, ownVars
  <2>6. QED
    BY <2>1, <2>2, <2>3, <2>4, <2>5 DEF Next, Loop
<1>2. QED
  BY Invariant, <1>1, PTL DEF Spec, BreakStopsBeforeFetch

(* The step after c prints the instruction c stopped at.                   *)
THEOREM StepAfterBreak == Spec => StepPrintsTheBreak
<1> DEFINE Step == fired' /\ ~fired /\ brokeAt # NoPc => prevPc = brokeAt
<1>1. IInv /\ [Next]_vars => Step
  <2> SUFFICES ASSUME IInv, [Next]_vars, fired', ~fired, brokeAt # NoPc
               PROVE  prevPc = brokeAt
    OBVIOUS
  <2>1. Clock
    BY DEF Next, Line, Close, Command, Leave, OnlyPrints, Idle, SetBreak, Enter, Continue,
           Skip, Loop, Tick, Finish, flags, vars, ownVars
  <2>2. mode = "enter" /\ InstructionCompletes
    BY <2>1 DEF Clock
  <2>3. NotBegun \/ InProgress \/ Promoted
    BY <2>2 DEF IInv, Traced
  <2>4. QED
    BY <2>2, <2>3 DEF InstructionCompletes, NotBegun, InProgress, Promoted, Fresh
<1>2. QED
  BY Invariant, <1>1, PTL DEF Spec, StepPrintsTheBreak
=============================================================================
