------------------------------- MODULE IntGen -------------------------------
(***************************************************************************)
(* The input pins of the bus and its INT generator (runloop/bus.ts), the   *)
(* edge that samples them (boot.tsx), and the store's verbs that write     *)
(* them with the mirror the UI reads (store/index.ts).                     *)
(*                                                                         *)
(* The generator keeps an absolute schedule: nextEdgeHc is the half cycle  *)
(* at which nINT turns next.  The clock it compares with is the run        *)
(* loop's, which counts edges and which a user may set back to zero.       *)
(***************************************************************************)
EXTENDS Integers

CONSTANTS
  HcMax,     (* bound: the half cycle at which the model stops the clock   *)
  Widths,    (* the numbers a caller passes, or finds persisted, as period *)
             (* or pulse width, after Math.floor                           *)
  UserPins   (* the pins the user touches                                  *)

InputPinName == {"nINT", "nNMI", "nRESET", "nBUSRQ", "nWAIT"}
LevelPin     == InputPinName \ {"nNMI"}

ASSUME IntGenAssumption ==
  /\ HcMax \in Nat
  /\ Widths \subseteq Int
  /\ UserPins \subseteq InputPinName

VARIABLES
  hc,            (* hcBox[0]                                               *)
  gen,           (* intGenEnabled, intGenPinLevel and the box's slots      *)
  pins,          (* the bus's inputPins                                    *)
  prevNmiLevel,
  cpuPins,       (* the levels on cpu.bus                                  *)
  nmiCalled,     (* the last edge called cpu.nmi()                         *)
  paused,        (* no frame is in progress and none is queued             *)
  mirror,        (* the store's inputPins, which the UI reads              *)
  phase,         (* history: the generator's phase and the edges in it     *)
  nmiAsked       (* history: nNMI was checked since the last edge          *)

vars == <<hc, gen, pins, prevNmiLevel, cpuPins, nmiCalled, paused, mirror, phase, nmiAsked>>

Infinity == -1          (* Number.POSITIVE_INFINITY: an edge never due *)

Larger(a, b) == IF a >= b THEN a ELSE b

(* How long the generator holds its present level. *)
PhaseLength(g) == IF g.level = 0 THEN g.pulseWidth ELSE g.period - g.pulseWidth

Gen == [enabled : BOOLEAN, level : {0, 1}, period : Nat, pulseWidth : Nat,
        nextEdgeHc : Nat \cup {Infinity}]

WidthsAreSound(g) == g.pulseWidth >= 1 /\ g.period >= g.pulseWidth + 1

TypeOK ==
  /\ hc \in 0 .. HcMax
  /\ gen \in Gen
  /\ WidthsAreSound(gen)
  /\ pins \in [InputPinName -> {0, 1}]
  /\ prevNmiLevel \in {0, 1}
  /\ cpuPins \in [LevelPin -> {0, 1}]
  /\ nmiCalled \in BOOLEAN
  /\ paused \in BOOLEAN
  /\ mirror \in [InputPinName -> {0, 1}]
  /\ phase \in [kind : {"armed", "timed", "changed"}, edges : Nat]
  /\ nmiAsked \in BOOLEAN

(* Phases: no level has turned since the generator was enabled; the level  *)
(* turned "edges" ago; the widths were changed since it turned.            *)
Armed   == [kind |-> "armed", edges |-> 0]
Changed == [kind |-> "changed", edges |-> 0]
Retimed == IF phase.kind = "armed" THEN Armed ELSE Changed

-----------------------------------------------------------------------------
(* bus.setIntGen: the widths are clamped, and the schedule is anchored,    *)
(* dropped or moved.  An omitted field is the present value, which every   *)
(* clamp leaves as it is.                                                  *)

Clamped(g, e, p, w) ==
  [g EXCEPT !.enabled = e,
            !.pulseWidth = Larger(1, w),
            !.period = Larger(p, Larger(1, w) + 1)]

Scheduled(g, level, at) == [g EXCEPT !.level = level, !.nextEdgeHc = at]

(* Variant: the moved edge may lie in the past. *)
RetimeUnclamped(g, new, now) ==
  Scheduled(new, g.level, g.nextEdgeHc - PhaseLength(g) + PhaseLength(new))

Retime(g, new, now) ==
  Scheduled(new, g.level, Larger(now, g.nextEdgeHc - PhaseLength(g) + PhaseLength(new)))

Reconfigured(g, e, p, w, now) ==
  LET new == Clamped(g, e, p, w)
  IN  IF ~g.enabled /\ e
        THEN Scheduled(new, 1, now)
      ELSE IF g.enabled /\ ~e
        THEN Scheduled(new, 1, Infinity)
      ELSE IF g.enabled
        THEN Retime(g, new, now)
      ELSE new

(* Only a stop of the train touches the pin: nINT is released. *)
PinsAfter(g, e, ps) == IF g.enabled /\ ~e THEN [ps EXCEPT !["nINT"] = 1] ELSE ps

(* makeBus64k takes the persisted numbers through its own clamps.  The     *)
(* clock is zero.                                                          *)
BootGen(e, p, w) ==
  LET off == [enabled |-> FALSE, level |-> 1, pulseWidth |-> Larger(1, w),
              period |-> Larger(Larger(2, p), Larger(1, w) + 1),
              nextEdgeHc |-> Infinity]
  IN  IF e THEN Reconfigured(off, TRUE, off.period, off.pulseWidth, 0) ELSE off

AllReleased(names) == [name \in names |-> 1]

Init ==
  /\ hc = 0
  /\ \E e \in BOOLEAN, p \in Widths, w \in Widths : gen = BootGen(e, p, w)
  /\ pins = AllReleased(InputPinName)
  /\ prevNmiLevel = 1
  /\ cpuPins = AllReleased(LevelPin)
  /\ nmiCalled = FALSE
  /\ paused = TRUE
  /\ mirror = AllReleased(InputPinName)
  /\ phase = Armed
  /\ nmiAsked = FALSE

-----------------------------------------------------------------------------
(* One edge of a frame: resolve before the CPU's edge, the clock, and then *)
(* the post-edge hook, which releases nNMI.                                *)

Due == gen.nextEdgeHc # Infinity /\ hc >= gen.nextEdgeHc

Toggled(g) == Scheduled(g, 1 - g.level, g.nextEdgeHc)

Begun(g, length) == Scheduled(g, 1 - g.level, g.nextEdgeHc + length)

(* Variant: the phase that ended is scheduled again, not the one begun. *)
AdvancedByOldPhase(g) ==
  IF Due THEN Begun(g, PhaseLength(g)) ELSE g

Advanced(g) ==
  IF Due THEN Begun(g, PhaseLength(Toggled(g))) ELSE g

ResolvedPins == IF Due THEN [pins EXCEPT !["nINT"] = Advanced(gen).level] ELSE pins

(* Variant: cpu.nmi() on the release of the pin. *)
NmiRises(level, prev) == level = 1 /\ prev = 0

NmiFalls(level, prev) == level = 0 /\ prev = 1

PhaseAfterEdge ==
  IF Due THEN [kind |-> "timed", edges |-> 1]
  ELSE IF phase.kind = "timed" THEN [phase EXCEPT !.edges = @ + 1]
  ELSE phase

Edge ==
  /\ ~paused
  /\ hc < HcMax
  /\ gen' = Advanced(gen)
  /\ cpuPins' = [name \in LevelPin |-> ResolvedPins[name]]
  /\ nmiCalled' = NmiFalls(ResolvedPins["nNMI"], prevNmiLevel)
  /\ prevNmiLevel' = ResolvedPins["nNMI"]
  /\ hc' = hc + 1
  /\ pins' = [ResolvedPins EXCEPT !["nNMI"] = 1]
  /\ phase' = PhaseAfterEdge
  /\ nmiAsked' = FALSE
  /\ UNCHANGED <<paused, mirror>>

(* The loop's onTick at the end of a frame, and its onPause, which comes   *)
(* first when the frame ends in a pause: both copy the pins to the mirror. *)
FrameEnd ==
  /\ ~paused
  /\ paused' \in BOOLEAN
  /\ mirror' = pins
  /\ UNCHANGED <<hc, gen, pins, prevNmiLevel, cpuPins, nmiCalled, phase, nmiAsked>>

Resume ==
  /\ paused
  /\ paused' = FALSE
  /\ UNCHANGED <<hc, gen, pins, prevNmiLevel, cpuPins, nmiCalled, mirror, phase, nmiAsked>>

-----------------------------------------------------------------------------
(* The store's verbs, between two frames. *)

(* Variant: nINT may be written while the generator owns it. *)
MayWriteAny(name) == paused

MayWrite(name) == paused /\ ~(name = "nINT" /\ gen.enabled)

SetInputPin(name, value) ==
  /\ MayWrite(name)
  /\ pins' = [pins EXCEPT ![name] = value]
  /\ mirror' = [mirror EXCEPT ![name] = value]
  /\ nmiAsked' = IF name = "nNMI" THEN value = 0 ELSE nmiAsked
  /\ UNCHANGED <<hc, gen, prevNmiLevel, cpuPins, nmiCalled, paused, phase>>

SetIntGen(e, p, w) ==
  /\ paused
  /\ gen' = Reconfigured(gen, e, p, w, hc)
  /\ pins' = PinsAfter(gen, e, pins)
  /\ mirror' = [mirror EXCEPT !["nINT"] = pins'["nINT"]]
  /\ phase' = IF gen.enabled /\ e THEN Retimed ELSE Armed
  /\ UNCHANGED <<hc, prevNmiLevel, cpuPins, nmiCalled, paused, nmiAsked>>

Restarted ==
  LET off == Reconfigured(gen, FALSE, gen.period, gen.pulseWidth, 0)
  IN  Reconfigured(off, TRUE, gen.period, gen.pulseWidth, 0)

(* Variant: the mirror is left to the next tick. *)
ZeroHCUnmirrored ==
  /\ hc' = 0
  /\ IF gen.enabled
       THEN /\ gen' = Restarted
            /\ pins' = PinsAfter(gen, FALSE, pins)
            /\ phase' = Armed
       ELSE UNCHANGED <<gen, pins, phase>>
  /\ UNCHANGED <<mirror, prevNmiLevel, cpuPins, nmiCalled, paused, nmiAsked>>

ZeroHC ==
  /\ hc' = 0
  /\ IF gen.enabled
       THEN /\ gen' = Restarted
            /\ pins' = PinsAfter(gen, FALSE, pins)
            /\ mirror' = [mirror EXCEPT !["nINT"] = pins'["nINT"]]
            /\ phase' = Armed
       ELSE UNCHANGED <<gen, pins, mirror, phase>>
  /\ UNCHANGED <<prevNmiLevel, cpuPins, nmiCalled, paused, nmiAsked>>

Verb ==
  \/ \E name \in UserPins, value \in {0, 1} : SetInputPin(name, value)
  \/ \E e \in BOOLEAN, p \in Widths \cup {gen.period}, w \in Widths \cup {gen.pulseWidth} :
       SetIntGen(e, p, w)
  \/ ZeroHC

Next == Edge \/ FrameEnd \/ Resume \/ Verb

Spec == Init /\ [][Next]_vars

-----------------------------------------------------------------------------
(* An enabled generator's next edge is never in the past, and never        *)
(* farther away than its present phase is long; a disabled one has none.   *)
(* The clock may be set back and the widths changed at any half cycle      *)
(* (store zeroHC and setIntGen).                                           *)
NextEdgeIsNear ==
  IF gen.enabled
    THEN /\ hc <= gen.nextEdgeHc
         /\ gen.nextEdgeHc <= hc + PhaseLength(gen)
    ELSE gen.nextEdgeHc = Infinity /\ gen.level = 1

(* From the first pulse on nINT is what the generator says, whoever writes *)
(* pins between two frames (store setInputPin).                            *)
GeneratorOwnsNINT ==
  gen.enabled /\ phase.kind # "armed" => pins["nINT"] = gen.level

(* While paused the UI shows the pins as they are, the ones an edge or the *)
(* generator changed included (store syncInputPinsFromBus).                *)
MirrorIsTrueWhenPaused == paused => mirror = pins

(* A phase that no one retimed lasts exactly its length: pulseWidth edges  *)
(* low, period - pulseWidth edges high (bus.ts resolve).                   *)
PulseIsExact ==
  [][hc' = hc + 1 /\ gen'.level # gen.level /\ phase.kind = "timed"
       => phase.edges = PhaseLength(gen)]_vars

(* cpu.nmi() is called only on the edge that follows a check of nNMI, so   *)
(* one check is at most one NMI (bus.ts, boot.tsx postEdge).               *)
NmiOnlyWhenAsked == [][hc' = hc + 1 /\ nmiCalled' => nmiAsked]_vars

(* The absolute schedule on a clock that a user sets back is a countdown   *)
(* that a user restarts.                                                   *)
Train == INSTANCE PulseTrain WITH
  enabled <- gen.enabled, level <- gen.level, period <- gen.period,
  width <- gen.pulseWidth, left <- IF gen.enabled THEN gen.nextEdgeHc - hc ELSE 0

ImplementsPulseTrain == Train!TrainSpec

(* "Check to fire NMI on the next clock edge" (style/strings.ts:429): no   *)
(* run checks it, for it fails when nNMI is checked right after it fired.  *)
NmiFiresOnNextEdge == [][hc' = hc + 1 /\ nmiAsked => nmiCalled']_vars
=============================================================================
