---------------------------- MODULE IntGenProofs ----------------------------
(***************************************************************************)
(* Theorems about IntGen for every bound of the clock, every set of widths *)
(* and every set of pins a user touches.                                   *)
(*                                                                         *)
(* One inductive invariant carries them all: the next edge is at most one  *)
(* phase away (NextEdgeIsNear), a phase nobody retimed has used exactly    *)
(* the edges that are not left (Counted), the pin is the generator's       *)
(* (GeneratorOwnsNINT), and a low nNMI was asked for since the last edge   *)
(* (Asked).                                                                *)
(***************************************************************************)
EXTENDS IntGen, TLAPS

Counted ==
  phase.kind = "timed" =>
    gen.enabled /\ phase.edges + (gen.nextEdgeHc - hc) = PhaseLength(gen)

Asked == pins["nNMI"] = 0 => nmiAsked

IInv ==
  /\ TypeOK
  /\ NextEdgeIsNear
  /\ Counted
  /\ GeneratorOwnsNINT
  /\ MirrorIsTrueWhenPaused
  /\ Asked

-----------------------------------------------------------------------------
(* What setIntGen makes of a generator, by its four transitions. *)

LEMMA ClampedIsSound ==
  ASSUME NEW g \in Gen, NEW e \in BOOLEAN, NEW p \in Int, NEW w \in Int
  PROVE  /\ Clamped(g, e, p, w) \in Gen
         /\ WidthsAreSound(Clamped(g, e, p, w))
         /\ Clamped(g, e, p, w).enabled = e
         /\ Clamped(g, e, p, w).level = g.level
         /\ Clamped(g, e, p, w).nextEdgeHc = g.nextEdgeHc
  <1>1. Larger(1, w) \in Nat
    BY DEF Larger
  <1>2. Larger(p, Larger(1, w) + 1) \in Nat
    BY <1>1 DEF Larger
  <1>3. Clamped(g, e, p, w) \in Gen
    BY <1>1, <1>2 DEF Clamped, Gen
  <1>4. WidthsAreSound(Clamped(g, e, p, w))
    BY DEF Clamped, Gen, WidthsAreSound, Larger
  <1>5. Clamped(g, e, p, w).enabled = e
    BY DEF Clamped, Gen
  <1>6. /\ Clamped(g, e, p, w).level = g.level
        /\ Clamped(g, e, p, w).nextEdgeHc = g.nextEdgeHc
    BY DEF Clamped, Gen
  <1> QED  BY <1>3, <1>4, <1>5, <1>6

LEMMA PhaseLengthType ==
  ASSUME NEW g \in Gen, WidthsAreSound(g)
  PROVE  PhaseLength(g) \in Nat /\ PhaseLength(g) >= 1
  BY DEF PhaseLength, Gen, WidthsAreSound

(* Setting the level and the schedule of a generator does that and keeps the *)
(* rest: the four facts are lemmas of their own, since each use needs one.   *)
LEMMA RescheduledFields ==
  ASSUME NEW c \in Gen, NEW lev \in {0, 1}, NEW at \in Nat \cup {Infinity}
  PROVE  /\ Scheduled(c, lev, at).level = lev
         /\ Scheduled(c, lev, at).nextEdgeHc = at
  BY DEF Gen, Scheduled

LEMMA RescheduledWidths ==
  ASSUME NEW c \in Gen, NEW lev \in {0, 1}, NEW at \in Nat \cup {Infinity}
  PROVE  /\ Scheduled(c, lev, at).period = c.period
         /\ Scheduled(c, lev, at).pulseWidth = c.pulseWidth
  BY DEF Gen, Scheduled

LEMMA RescheduledEnabled ==
  ASSUME NEW c \in Gen, NEW lev \in {0, 1}, NEW at \in Nat \cup {Infinity}
  PROVE  Scheduled(c, lev, at).enabled <=> c.enabled
  BY DEF Gen, Scheduled

LEMMA RescheduledType ==
  ASSUME NEW c \in Gen, NEW lev \in {0, 1}, NEW at \in Nat \cup {Infinity}
  PROVE  Scheduled(c, lev, at) \in Gen
  BY DEF Gen, Scheduled

LEMMA RescheduledIsSound ==
  ASSUME NEW c \in Gen, WidthsAreSound(c), NEW lev \in {0, 1},
         NEW at \in Nat \cup {Infinity}
  PROVE  WidthsAreSound(Scheduled(c, lev, at))
  BY RescheduledWidths DEF WidthsAreSound

LEMMA EnableAnchors ==
  ASSUME NEW g \in Gen, NEW p \in Int, NEW w \in Int, NEW now \in Nat, ~g.enabled
  PROVE  LET r == Reconfigured(g, TRUE, p, w, now)
         IN  r \in Gen /\ WidthsAreSound(r) /\ r.enabled /\ r.level = 1 /\ r.nextEdgeHc = now
  <1> DEFINE c == Clamped(g, TRUE, p, w)
  <1>1. Reconfigured(g, TRUE, p, w, now) = Scheduled(c, 1, now)
    BY Zenon DEF Reconfigured
  <1>2. c \in Gen /\ WidthsAreSound(c) /\ c.enabled
    BY ClampedIsSound
  <1> HIDE DEF c
  <1>3. now \in Nat \cup {Infinity} /\ 1 \in {0, 1}
    OBVIOUS
  <1>4. Scheduled(c, 1, now) \in Gen
    BY <1>2, <1>3, RescheduledType
  <1>5. Scheduled(c, 1, now).enabled
    BY <1>2, <1>3, RescheduledEnabled
  <1>6. Scheduled(c, 1, now).level = 1
    BY <1>2, <1>3, RescheduledFields
  <1>7. WidthsAreSound(Scheduled(c, 1, now))
    BY <1>2, <1>3, RescheduledIsSound
  <1>8. Scheduled(c, 1, now).nextEdgeHc = now
    BY <1>2, <1>3, RescheduledFields
  <1> QED  BY <1>1, <1>4, <1>5, <1>6, <1>7, <1>8

LEMMA DisableStops ==
  ASSUME NEW g \in Gen, NEW p \in Int, NEW w \in Int, NEW now \in Nat,
         ~g.enabled => g.nextEdgeHc = Infinity /\ g.level = 1
  PROVE  LET r == Reconfigured(g, FALSE, p, w, now)
         IN  r \in Gen /\ WidthsAreSound(r) /\ ~r.enabled /\ r.level = 1
               /\ r.nextEdgeHc = Infinity
  <1> DEFINE c == Clamped(g, FALSE, p, w)
  <1>1. /\ c \in Gen /\ WidthsAreSound(c) /\ ~c.enabled
        /\ c.level = g.level /\ c.nextEdgeHc = g.nextEdgeHc
    BY ClampedIsSound
  <1>2. CASE g.enabled
    <2>1. Reconfigured(g, FALSE, p, w, now) = Scheduled(c, 1, Infinity)
      BY <1>2, Zenon DEF Reconfigured
    <2> HIDE DEF c
    <2>2. Infinity \in Nat \cup {Infinity} /\ 1 \in {0, 1}
      OBVIOUS
    <2>3. Scheduled(c, 1, Infinity) \in Gen
      BY <1>1, <2>2, RescheduledType
    <2>4. WidthsAreSound(Scheduled(c, 1, Infinity))
      BY <1>1, <2>2, RescheduledIsSound
    <2>5. ~Scheduled(c, 1, Infinity).enabled
      BY <1>1, <2>2, RescheduledEnabled
    <2>6. Scheduled(c, 1, Infinity).level = 1
      BY <1>1, <2>2, RescheduledFields
    <2>7. Scheduled(c, 1, Infinity).nextEdgeHc = Infinity
      BY <1>1, <2>2, RescheduledFields
    <2> QED  BY <2>1, <2>3, <2>4, <2>5, <2>6, <2>7
  <1>3. CASE ~g.enabled
    <2>1. Reconfigured(g, FALSE, p, w, now) = c
      BY <1>3, Zenon DEF Reconfigured
    <2> HIDE DEF c
    <2> QED  BY <1>1, <1>3, <2>1
  <1> QED  BY <1>2, <1>3

LEMMA RetimeKeepsPhase ==
  ASSUME NEW g \in Gen, NEW p \in Int, NEW w \in Int, NEW now \in Nat,
         g.enabled, WidthsAreSound(g), g.nextEdgeHc \in Nat,
         now <= g.nextEdgeHc, g.nextEdgeHc <= now + PhaseLength(g)
  PROVE  LET r == Reconfigured(g, TRUE, p, w, now)
         IN  /\ r \in Gen /\ WidthsAreSound(r) /\ r.enabled /\ r.level = g.level
             /\ r.nextEdgeHc = Larger(now, g.nextEdgeHc - PhaseLength(g) + PhaseLength(r))
             /\ now <= r.nextEdgeHc
             /\ r.nextEdgeHc <= now + PhaseLength(r)
  <1> DEFINE c  == Clamped(g, TRUE, p, w)
             r  == Reconfigured(g, TRUE, p, w, now)
             at == Larger(now, g.nextEdgeHc - PhaseLength(g) + PhaseLength(c))
  <1>1. c \in Gen /\ WidthsAreSound(c) /\ c.enabled /\ c.level = g.level
    BY ClampedIsSound
  <1>2. r = Scheduled(c, g.level, at)
    BY Zenon DEF Reconfigured, Retime
  <1>3. g.level \in {0, 1}
    BY DEF Gen
  <1>4. PhaseLength(c) \in Nat /\ PhaseLength(g) \in Nat
    BY <1>1, PhaseLengthType
  <1> HIDE DEF c, r
  <1>5. at \in Nat /\ at \in Nat \cup {Infinity} /\ now <= at /\ at <= now + PhaseLength(c)
    BY <1>4 DEF Larger
  <1> HIDE DEF at
  <1>6. Scheduled(c, g.level, at) \in Gen
    BY <1>1, <1>3, <1>5, RescheduledType
  <1>7. WidthsAreSound(Scheduled(c, g.level, at))
    BY <1>1, <1>3, <1>5, RescheduledIsSound
  <1>8. Scheduled(c, g.level, at).enabled
    BY <1>1, <1>3, <1>5, RescheduledEnabled
  <1>9. Scheduled(c, g.level, at).level = g.level
    BY <1>1, <1>3, <1>5, RescheduledFields
  <1>10. Scheduled(c, g.level, at).nextEdgeHc = at
    BY <1>1, <1>3, <1>5, RescheduledFields
  <1>11. Scheduled(c, g.level, at).period = c.period /\ Scheduled(c, g.level, at).pulseWidth = c.pulseWidth
    BY <1>1, <1>3, <1>5, RescheduledWidths
  <1>12. PhaseLength(r) = PhaseLength(c)
    BY <1>1, <1>2, <1>9, <1>11 DEF PhaseLength
  <1> QED  BY <1>2, <1>5, <1>6, <1>7, <1>8, <1>9, <1>10, <1>12 DEF r, at

LEMMA RestartedAtZero ==
  ASSUME gen \in Gen, gen.enabled
  PROVE  Restarted \in Gen /\ WidthsAreSound(Restarted) /\ Restarted.enabled
           /\ Restarted.level = 1 /\ Restarted.nextEdgeHc = 0
  <1> DEFINE off == Reconfigured(gen, FALSE, gen.period, gen.pulseWidth, 0)
  <1>1. gen.period \in Int /\ gen.pulseWidth \in Int
    BY DEF Gen
  <1>2. off \in Gen /\ ~off.enabled
    BY <1>1, DisableStops
  <1> QED  BY <1>1, <1>2, EnableAnchors DEF Restarted

(* What the generator's compare does on an edge. *)
LEMMA Advances ==
  ASSUME TypeOK, NextEdgeIsNear
  PROVE  /\ Advanced(gen) \in Gen
         /\ WidthsAreSound(Advanced(gen))
         /\ Advanced(gen).enabled <=> gen.enabled
         /\ Advanced(gen).period = gen.period /\ Advanced(gen).pulseWidth = gen.pulseWidth
         /\ Due => /\ gen.enabled /\ gen.nextEdgeHc = hc
                   /\ Advanced(gen).level = 1 - gen.level
                   /\ Advanced(gen).nextEdgeHc = hc + PhaseLength(Advanced(gen))
         /\ ~Due => Advanced(gen) = gen
         /\ ~Due /\ gen.enabled => hc < gen.nextEdgeHc
  <1>1. gen \in Gen /\ WidthsAreSound(gen) /\ hc \in Nat
    BY DEF TypeOK
  <1>2. gen.level \in {0, 1} /\ gen.nextEdgeHc \in Nat \cup {Infinity}
    BY <1>1 DEF Gen
  <1>3. Due => gen.enabled /\ gen.nextEdgeHc = hc
    BY <1>1, <1>2 DEF Due, NextEdgeIsNear, Infinity
  <1>4. ~Due => Advanced(gen) = gen
    BY DEF Advanced
  <1>5. ~Due /\ gen.enabled => hc < gen.nextEdgeHc
    BY <1>1, <1>2 DEF Due, NextEdgeIsNear, Infinity
  <1>6. CASE ~Due
    BY <1>1, <1>4, <1>5, <1>6
  <1>7. CASE Due
    <2> DEFINE lev == 1 - gen.level
               t   == Scheduled(gen, lev, gen.nextEdgeHc)
               at  == gen.nextEdgeHc + PhaseLength(t)
               a   == Scheduled(gen, lev, at)
    <2>1. lev \in {0, 1}
      BY <1>2
    <2>2. Advanced(gen) = a
      BY <1>7, Zenon DEF Advanced, Begun, Toggled
    <2>3. t \in Gen /\ WidthsAreSound(t)
      <3>1. t \in Gen
        BY <1>1, <1>2, <2>1, RescheduledType
      <3>2. WidthsAreSound(t)
        BY <1>1, <1>2, <2>1, RescheduledIsSound
      <3> QED  BY <3>1, <3>2
    <2>4. t.level = lev /\ t.period = gen.period /\ t.pulseWidth = gen.pulseWidth
      <3>1. t.level = lev
        BY <1>1, <1>2, <2>1, RescheduledFields
      <3>2. t.period = gen.period /\ t.pulseWidth = gen.pulseWidth
        BY <1>1, <1>2, <2>1, RescheduledWidths
      <3> QED  BY <3>1, <3>2
    <2>5. at \in Nat /\ at \in Nat \cup {Infinity}
      BY <1>1, <1>3, <1>7, <2>3, PhaseLengthType
    <2> HIDE DEF t, at
    <2>6. a \in Gen
      BY <1>1, <2>1, <2>5, RescheduledType
    <2>7. WidthsAreSound(a)
      BY <1>1, <2>1, <2>5, RescheduledIsSound
    <2>8. a.enabled <=> gen.enabled
      BY <1>1, <2>1, <2>5, RescheduledEnabled
    <2>9. a.level = lev
      BY <1>1, <2>1, <2>5, RescheduledFields
    <2>10. a.nextEdgeHc = at
      BY <1>1, <2>1, <2>5, RescheduledFields
    <2>11. a.period = gen.period /\ a.pulseWidth = gen.pulseWidth
      BY <1>1, <2>1, <2>5, RescheduledWidths
    <2>12. PhaseLength(a) = PhaseLength(t)
      BY <2>4, <2>9, <2>11 DEF PhaseLength
    <2>13. a.nextEdgeHc = hc + PhaseLength(a)
      BY <1>3, <1>7, <2>10, <2>12 DEF at
    <2> HIDE DEF a
    <2> QED  BY <1>3, <1>7, <2>2, <2>6, <2>7, <2>8, <2>9, <2>11, <2>13
  <1> QED  BY <1>6, <1>7

-----------------------------------------------------------------------------
(* The inductive invariant. *)

LEMMA BootIsSound ==
  ASSUME NEW e \in BOOLEAN, NEW p \in Int, NEW w \in Int
  PROVE  LET b == BootGen(e, p, w)
         IN  /\ b \in Gen /\ WidthsAreSound(b) /\ b.level = 1
             /\ b.nextEdgeHc = IF b.enabled THEN 0 ELSE Infinity
  <1> DEFINE off == [enabled |-> FALSE, level |-> 1, pulseWidth |-> Larger(1, w),
                     period |-> Larger(Larger(2, p), Larger(1, w) + 1),
                     nextEdgeHc |-> Infinity]
  <1>1. Larger(1, w) \in Nat /\ Larger(1, w) >= 1
    BY DEF Larger
  <1>2. /\ Larger(Larger(2, p), Larger(1, w) + 1) \in Nat
        /\ Larger(Larger(2, p), Larger(1, w) + 1) >= Larger(1, w) + 1
    BY <1>1 DEF Larger
  <1>3. off \in Gen /\ ~off.enabled
    BY <1>1, <1>2 DEF Gen
  <1>4. WidthsAreSound(off)
    BY <1>1, <1>2 DEF WidthsAreSound
  <1>5. off.level = 1 /\ off.nextEdgeHc = Infinity
    OBVIOUS
  <1>6. off.period \in Int /\ off.pulseWidth \in Int
    BY <1>3 DEF Gen
  <1>7. BootGen(e, p, w) = IF e THEN Reconfigured(off, TRUE, off.period, off.pulseWidth, 0) ELSE off
    BY Zenon DEF BootGen
  <1> HIDE DEF off
  <1>8. CASE e
    <2> DEFINE r == Reconfigured(off, TRUE, off.period, off.pulseWidth, 0)
    <2>1. r \in Gen /\ WidthsAreSound(r) /\ r.enabled /\ r.level = 1 /\ r.nextEdgeHc = 0
      <3>1. r \in Gen
        BY <1>3, <1>6, EnableAnchors
      <3>2. WidthsAreSound(r)
        BY <1>3, <1>6, EnableAnchors
      <3>3. r.enabled
        BY <1>3, <1>6, EnableAnchors
      <3>4. 0 \in Nat
        OBVIOUS
      <3>5. r.level = 1 /\ r.nextEdgeHc = 0
        BY <1>3, <1>6, <3>4, EnableAnchors, ZenonT(20)
      <3> QED  BY <3>1, <3>2, <3>3, <3>4, <3>5
    <2>2. BootGen(e, p, w) = r
      BY <1>7, <1>8
    <2> HIDE DEF r
    <2> QED  BY <2>1, <2>2
  <1>9. CASE ~e
    BY <1>3, <1>4, <1>5, <1>7, <1>9
  <1> QED  BY <1>8, <1>9

LEMMA InitHolds == Init => IInv
  <1> SUFFICES ASSUME Init PROVE IInv
    OBVIOUS
  <1>1. hc = 0 /\ hc \in 0 .. HcMax
    BY IntGenAssumption DEF Init
  <1>2. PICK e \in BOOLEAN, p \in Widths, w \in Widths : gen = BootGen(e, p, w)
    BY DEF Init
  <1>3. /\ gen \in Gen /\ WidthsAreSound(gen) /\ gen.level = 1
        /\ gen.nextEdgeHc = IF gen.enabled THEN 0 ELSE Infinity
    <2>1. p \in Int /\ w \in Int
      BY IntGenAssumption
    <2> QED  BY <1>2, <2>1, BootIsSound
  <1>4. TypeOK
    BY <1>1, <1>3 DEF Init, TypeOK, AllReleased, Armed
  <1>5. PhaseLength(gen) \in Nat
    BY <1>3, PhaseLengthType
  <1>6. NextEdgeIsNear
    BY <1>1, <1>3, <1>5 DEF NextEdgeIsNear
  <1>7. Counted /\ GeneratorOwnsNINT /\ MirrorIsTrueWhenPaused /\ Asked
    BY DEF Init, Counted, GeneratorOwnsNINT, MirrorIsTrueWhenPaused, Asked, Armed,
           AllReleased, InputPinName
  <1> QED  BY <1>4, <1>6, <1>7 DEF IInv

LEMMA EdgeKeeps == IInv /\ Edge => IInv'
  <1> SUFFICES ASSUME IInv, Edge PROVE IInv'
    OBVIOUS
  <1> USE DEF IInv
  <1> DEFINE a == Advanced(gen)
  <1>1. /\ a \in Gen
        /\ WidthsAreSound(a)
        /\ a.enabled <=> gen.enabled
        /\ Due => /\ gen.enabled /\ gen.nextEdgeHc = hc
                  /\ a.level = 1 - gen.level
                  /\ a.nextEdgeHc = hc + PhaseLength(a)
        /\ ~Due => a = gen
        /\ ~Due /\ gen.enabled => hc < gen.nextEdgeHc
    BY Advances
  <1>2. gen' = a /\ hc' = hc + 1 /\ hc' \in 0 .. HcMax /\ hc \in Nat
    BY IntGenAssumption DEF Edge, TypeOK
  <1>3. PhaseLength(a) \in Nat /\ PhaseLength(a) >= 1
    BY <1>1, PhaseLengthType
  <1>4. a.level \in {0, 1} /\ a.nextEdgeHc \in Nat \cup {Infinity}
    BY <1>1 DEF Gen
  <1>5. PhaseLength(gen') = PhaseLength(a) /\ PhaseLength(gen)' = PhaseLength(a)
    BY <1>2 DEF PhaseLength
  <1> HIDE DEF a
  <1>6. ResolvedPins \in [InputPinName -> {0, 1}]
    <2>1. pins \in [InputPinName -> {0, 1}]
      BY DEF TypeOK
    <2>2. ResolvedPins = IF Due THEN [pins EXCEPT !["nINT"] = a.level] ELSE pins
      BY DEF ResolvedPins, a
    <2> QED  BY <1>4, <2>1, <2>2
  <1>7. TypeOK'
    <2>1. gen' \in Gen /\ WidthsAreSound(gen')
      BY <1>1, <1>2
    <2>2. pins' \in [InputPinName -> {0, 1}] /\ prevNmiLevel' \in {0, 1}
      BY <1>6 DEF Edge, InputPinName
    <2>3. cpuPins' \in [LevelPin -> {0, 1}]
      BY <1>6 DEF Edge, LevelPin
    <2>4. nmiCalled' \in BOOLEAN
      BY DEF Edge, NmiFalls
    <2>5. phase' \in [kind : {"armed", "timed", "changed"}, edges : Nat]
      BY DEF Edge, PhaseAfterEdge, TypeOK
    <2>6. paused' \in BOOLEAN /\ mirror' \in [InputPinName -> {0, 1}] /\ nmiAsked' \in BOOLEAN
      BY DEF Edge, TypeOK
    <2> QED  BY <1>2, <2>1, <2>2, <2>3, <2>4, <2>5, <2>6 DEF TypeOK, WidthsAreSound
  <1>8. NextEdgeIsNear'
    <2>1. CASE Due
      BY <1>1, <1>2, <1>3, <1>5, <2>1 DEF NextEdgeIsNear
    <2>2. CASE ~Due
      <3>1. gen' = gen /\ PhaseLength(gen)' = PhaseLength(gen)
        BY <1>1, <1>2, <1>5, <2>2
      <3>2. CASE gen.enabled
        <4>1. hc < gen.nextEdgeHc /\ gen.nextEdgeHc <= hc + PhaseLength(gen)
          BY <1>1, <2>2, <3>2 DEF NextEdgeIsNear
        <4>2. gen.nextEdgeHc \in Nat /\ PhaseLength(gen) \in Nat
          BY <1>1, <1>2, <1>3, <1>4, <2>2, <3>2, <4>1 DEF Infinity
        <4> HIDE DEF Due
        <4>3. hc + 1 <= gen.nextEdgeHc /\ gen.nextEdgeHc <= hc + 1 + PhaseLength(gen)
          BY <1>2, <4>1, <4>2
        <4> QED  BY <1>2, <3>1, <3>2, <4>3 DEF NextEdgeIsNear
      <3>3. CASE ~gen.enabled
        BY <3>1, <3>3 DEF NextEdgeIsNear
      <3> QED  BY <3>2, <3>3
    <2> QED  BY <2>1, <2>2
  <1>9. Counted'
    <2>1. CASE Due
      <3>1. phase'.edges = 1
        BY <2>1 DEF Edge, PhaseAfterEdge
      <3>2. gen'.enabled /\ gen'.nextEdgeHc = hc + PhaseLength(a)
        BY <1>1, <1>2, <2>1
      <3> QED  BY <1>2, <1>3, <1>5, <3>1, <3>2 DEF Counted
    <2>2. CASE ~Due
      <3>1. CASE phase.kind = "timed"
        <4>1. phase'.edges = phase.edges + 1 /\ phase.edges \in Nat
          BY <2>2, <3>1 DEF Edge, PhaseAfterEdge, TypeOK
        <4>2. gen' = gen /\ gen.enabled /\ gen.nextEdgeHc \in Nat
          BY <1>1, <1>2, <1>4, <2>2, <3>1 DEF Counted, NextEdgeIsNear, Infinity
        <4>3. phase.edges + (gen.nextEdgeHc - hc) = PhaseLength(gen)
          BY <3>1 DEF Counted
        <4>4. PhaseLength(gen)' = PhaseLength(gen)
          BY <4>2 DEF PhaseLength
        <4> QED  BY <1>2, <4>1, <4>2, <4>3, <4>4 DEF Counted
      <3>2. CASE phase.kind # "timed"
        BY <2>2, <3>2 DEF Edge, PhaseAfterEdge, Counted
      <3> QED  BY <3>1, <3>2
    <2> QED  BY <2>1, <2>2
  <1>10. GeneratorOwnsNINT'
    <2>1. pins'["nINT"] = ResolvedPins["nINT"]
      BY <1>6 DEF Edge, InputPinName
    <2>2. CASE Due
      <3>1. ResolvedPins = [pins EXCEPT !["nINT"] = a.level]
        BY <2>2 DEF ResolvedPins, a
      <3>2. ResolvedPins["nINT"] = a.level
        BY <3>1 DEF TypeOK, InputPinName
      <3> QED  BY <1>2, <2>1, <3>2 DEF GeneratorOwnsNINT
    <2>3. CASE ~Due
      <3>1. ResolvedPins = pins /\ gen' = gen /\ phase'.kind = phase.kind
        BY <1>1, <1>2, <2>3 DEF ResolvedPins, Edge, PhaseAfterEdge, TypeOK
      <3> QED  BY <2>1, <3>1 DEF GeneratorOwnsNINT
    <2> QED  BY <2>2, <2>3
  <1>11. MirrorIsTrueWhenPaused'
    BY DEF Edge, MirrorIsTrueWhenPaused
  <1>12. Asked'
    BY <1>6 DEF Edge, Asked, InputPinName
  <1> QED  BY <1>7, <1>8, <1>9, <1>10, <1>11, <1>12

LEMMA FrameKeeps == IInv /\ (FrameEnd \/ Resume) => IInv'
  <1> SUFFICES ASSUME IInv, FrameEnd \/ Resume PROVE IInv'
    OBVIOUS
  <1>1. UNCHANGED <<hc, gen, pins, phase, prevNmiLevel, cpuPins, nmiCalled, nmiAsked>>
    BY DEF FrameEnd, Resume
  <1>2. TypeOK'
    BY <1>1 DEF IInv, TypeOK, FrameEnd, Resume, WidthsAreSound
  <1>3. NextEdgeIsNear' /\ Counted' /\ GeneratorOwnsNINT' /\ Asked'
    BY <1>1 DEF IInv, NextEdgeIsNear, Counted, GeneratorOwnsNINT, Asked, PhaseLength
  <1>4. MirrorIsTrueWhenPaused'
    BY DEF IInv, FrameEnd, Resume, MirrorIsTrueWhenPaused
  <1> QED  BY <1>2, <1>3, <1>4 DEF IInv

LEMMA SetInputPinKeeps ==
  ASSUME IInv, NEW name \in UserPins, NEW value \in {0, 1}, SetInputPin(name, value)
  PROVE  IInv'
  <1>1. name \in InputPinName
    BY IntGenAssumption
  <1>2. UNCHANGED <<hc, gen, phase, paused>>
    BY DEF SetInputPin
  <1>3. TypeOK'
    BY <1>1 DEF IInv, TypeOK, SetInputPin, WidthsAreSound
  <1>4. NextEdgeIsNear' /\ Counted'
    BY <1>2 DEF IInv, NextEdgeIsNear, Counted, PhaseLength
  <1>5. GeneratorOwnsNINT'
    BY <1>1, <1>2 DEF IInv, TypeOK, SetInputPin, MayWrite, GeneratorOwnsNINT
  <1>6. MirrorIsTrueWhenPaused'
    BY <1>1 DEF IInv, TypeOK, SetInputPin, MayWrite, MirrorIsTrueWhenPaused
  <1>7. Asked'
    <2>1. CASE name = "nNMI"
      BY <1>1, <2>1 DEF IInv, TypeOK, SetInputPin, Asked
    <2>2. CASE name # "nNMI"
      BY <1>1, <2>2 DEF IInv, TypeOK, SetInputPin, Asked
    <2> QED  BY <2>1, <2>2
  <1> QED  BY <1>3, <1>4, <1>5, <1>6, <1>7 DEF IInv

(* The generator after a reconfiguration, whichever transition it is. *)
LEMMA ReconfiguredIsNear ==
  ASSUME TypeOK, NextEdgeIsNear, NEW e \in BOOLEAN, NEW p \in Int, NEW w \in Int
  PROVE  LET r == Reconfigured(gen, e, p, w, hc)
         IN  /\ r \in Gen /\ WidthsAreSound(r) /\ (r.enabled <=> e)
             /\ gen.enabled /\ e =>
                  /\ r.level = gen.level
                  /\ r.nextEdgeHc = Larger(hc, gen.nextEdgeHc - PhaseLength(gen) + PhaseLength(r))
             /\ ~gen.enabled /\ e => r.level = 1 /\ r.nextEdgeHc = hc
             /\ ~e => r.level = 1 /\ r.nextEdgeHc = Infinity
             /\ e => hc <= r.nextEdgeHc /\ r.nextEdgeHc <= hc + PhaseLength(r)
  <1> DEFINE r == Reconfigured(gen, e, p, w, hc)
  <1>1. gen \in Gen /\ WidthsAreSound(gen) /\ hc \in Nat
    BY DEF TypeOK
  <1>2. gen.level \in {0, 1} /\ gen.nextEdgeHc \in Nat \cup {Infinity}
    BY <1>1 DEF Gen
  <1>3. CASE gen.enabled /\ e
    <2>1. hc <= gen.nextEdgeHc /\ gen.nextEdgeHc <= hc + PhaseLength(gen)
      BY <1>3 DEF NextEdgeIsNear
    <2>2. gen.nextEdgeHc \in Nat
      BY <1>1, <1>2, <2>1 DEF Infinity
    <2>3. e = TRUE
      BY <1>3
    <2>4. r \in Gen /\ WidthsAreSound(r) /\ r.enabled /\ r.level = gen.level
      BY <1>1, <1>3, <2>1, <2>2, <2>3, RetimeKeepsPhase, Zenon
    <2>5. r.nextEdgeHc = Larger(hc, gen.nextEdgeHc - PhaseLength(gen) + PhaseLength(r))
      BY <1>1, <1>3, <2>1, <2>2, <2>3, RetimeKeepsPhase, Zenon
    <2>6. hc <= r.nextEdgeHc /\ r.nextEdgeHc <= hc + PhaseLength(r)
      BY <1>1, <1>3, <2>1, <2>2, <2>3, RetimeKeepsPhase, Zenon
    <2> QED  BY <1>3, <2>4, <2>5, <2>6
  <1>4. CASE ~gen.enabled /\ e
    <2>1. e = TRUE
      BY <1>4
    <2>2. r \in Gen /\ WidthsAreSound(r) /\ r.enabled /\ r.level = 1 /\ r.nextEdgeHc = hc
      BY <1>1, <1>4, <2>1, EnableAnchors, Zenon
    <2>3. PhaseLength(r) \in Nat
      BY <2>2, PhaseLengthType
    <2> HIDE DEF r
    <2>4. hc <= r.nextEdgeHc /\ r.nextEdgeHc <= hc + PhaseLength(r)
      BY <1>1, <2>2, <2>3
    <2> QED  BY <1>4, <2>2, <2>4 DEF r
  <1>5. CASE ~e
    <2>1. e = FALSE
      BY <1>5
    <2>2. ~gen.enabled => gen.nextEdgeHc = Infinity /\ gen.level = 1
      BY DEF NextEdgeIsNear
    <2>3. r \in Gen /\ WidthsAreSound(r) /\ ~r.enabled /\ r.level = 1 /\ r.nextEdgeHc = Infinity
      BY <1>1, <2>1, <2>2, DisableStops, Zenon
    <2> QED  BY <1>5, <2>3
  <1> QED  BY <1>3, <1>4, <1>5

LEMMA SetIntGenKeeps ==
  ASSUME IInv, NEW e \in BOOLEAN, NEW p \in Int, NEW w \in Int, SetIntGen(e, p, w)
  PROVE  IInv'
  <1> DEFINE r == Reconfigured(gen, e, p, w, hc)
  <1>1. gen' = r /\ UNCHANGED <<hc, paused, prevNmiLevel, cpuPins, nmiCalled, nmiAsked>>
    BY DEF SetIntGen
  <1>2. /\ r \in Gen /\ WidthsAreSound(r) /\ (r.enabled <=> e)
        /\ gen.enabled /\ e => r.level = gen.level
        /\ ~e => r.level = 1 /\ r.nextEdgeHc = Infinity
        /\ e => hc <= r.nextEdgeHc /\ r.nextEdgeHc <= hc + PhaseLength(r)
    BY ReconfiguredIsNear DEF IInv
  <1> HIDE DEF r
  <1>3. /\ pins \in [InputPinName -> {0, 1}] /\ mirror \in [InputPinName -> {0, 1}]
        /\ "nINT" \in InputPinName /\ "nNMI" \in InputPinName
    BY DEF IInv, TypeOK, InputPinName
  <1>4. pins' = PinsAfter(gen, e, pins) /\ pins' \in [InputPinName -> {0, 1}]
    BY <1>3 DEF SetIntGen, PinsAfter
  <1>5. mirror' = [mirror EXCEPT !["nINT"] = pins'["nINT"]] /\ mirror' \in [InputPinName -> {0, 1}]
    BY <1>3, <1>4 DEF SetIntGen
  <1>6. phase' = IF gen.enabled /\ e THEN Retimed ELSE Armed
    BY DEF SetIntGen
  <1>7. TypeOK'
    <2>1. phase' \in [kind : {"armed", "timed", "changed"}, edges : Nat]
      BY <1>6 DEF Retimed, Armed, Changed
    <2> QED  BY <1>1, <1>2, <1>4, <1>5, <2>1 DEF IInv, TypeOK, WidthsAreSound
  <1>8. NextEdgeIsNear'
    BY <1>1, <1>2 DEF NextEdgeIsNear, PhaseLength
  <1>9. Counted'
    BY <1>6 DEF Counted, Retimed, Armed, Changed
  <1>10. GeneratorOwnsNINT'
    <2>1. CASE gen.enabled /\ e
      <3>1. pins' = pins /\ gen'.level = gen.level
        BY <1>1, <1>2, <1>4, <2>1 DEF PinsAfter
      <3>2. phase'.kind # "armed" => phase.kind # "armed"
        BY <1>6, <2>1 DEF Retimed, Armed, Changed
      <3> QED  BY <2>1, <3>1, <3>2 DEF IInv, GeneratorOwnsNINT
    <2>2. CASE ~(gen.enabled /\ e)
      BY <1>6, <2>2 DEF GeneratorOwnsNINT, Armed
    <2> QED  BY <2>1, <2>2
  <1>11. MirrorIsTrueWhenPaused'
    <2>1. mirror = pins
      BY DEF IInv, MirrorIsTrueWhenPaused, SetIntGen
    <2>2. mirror' = pins'
      BY <1>3, <1>4, <1>5, <2>1 DEF PinsAfter
    <2> QED  BY <2>2 DEF MirrorIsTrueWhenPaused
  <1>12. Asked'
    BY <1>1, <1>3, <1>4 DEF IInv, Asked, PinsAfter
  <1> QED  BY <1>7, <1>8, <1>9, <1>10, <1>11, <1>12 DEF IInv

LEMMA ZeroHCKeeps == IInv /\ ZeroHC => IInv'
  <1> SUFFICES ASSUME IInv, ZeroHC PROVE IInv'
    OBVIOUS
  <1>1. hc' = 0 /\ UNCHANGED <<paused, prevNmiLevel, cpuPins, nmiCalled, nmiAsked>>
    BY DEF ZeroHC
  <1>2. 0 \in 0 .. HcMax
    BY IntGenAssumption
  <1>3. gen \in Gen /\ WidthsAreSound(gen)
    BY DEF IInv, TypeOK
  <1>4. /\ pins \in [InputPinName -> {0, 1}] /\ mirror \in [InputPinName -> {0, 1}]
        /\ "nINT" \in InputPinName /\ "nNMI" \in InputPinName
    BY DEF IInv, TypeOK, InputPinName
  <1>5. CASE gen.enabled
    <2>1. gen' = Restarted /\ phase' = Armed /\ pins' = PinsAfter(gen, FALSE, pins)
            /\ mirror' = [mirror EXCEPT !["nINT"] = pins'["nINT"]]
      BY <1>5 DEF ZeroHC
    <2>2. Restarted \in Gen /\ WidthsAreSound(Restarted) /\ Restarted.enabled
            /\ Restarted.level = 1 /\ Restarted.nextEdgeHc = 0
      BY <1>3, <1>5, RestartedAtZero
    <2>3. PhaseLength(Restarted) \in Nat /\ PhaseLength(gen)' = PhaseLength(Restarted)
      BY <2>1, <2>2, PhaseLengthType DEF PhaseLength
    <2>4. pins' = [pins EXCEPT !["nINT"] = 1]
      BY <1>5, <2>1 DEF PinsAfter
    <2>5. pins' \in [InputPinName -> {0, 1}] /\ mirror' \in [InputPinName -> {0, 1}]
      BY <1>4, <2>1, <2>4
    <2>6. TypeOK'
      BY <1>1, <1>2, <2>1, <2>2, <2>5 DEF IInv, TypeOK, Armed, WidthsAreSound
    <2>7. NextEdgeIsNear'
      BY <1>1, <2>1, <2>2, <2>3 DEF NextEdgeIsNear
    <2>8. Counted' /\ GeneratorOwnsNINT'
      BY <2>1 DEF Counted, GeneratorOwnsNINT, Armed
    <2>9. MirrorIsTrueWhenPaused'
      BY <1>1, <1>4, <2>1, <2>4 DEF IInv, MirrorIsTrueWhenPaused
    <2>10. Asked'
      BY <1>1, <1>4, <2>4 DEF IInv, Asked
    <2> QED  BY <2>6, <2>7, <2>8, <2>9, <2>10 DEF IInv
  <1>6. CASE ~gen.enabled
    <2>1. UNCHANGED <<gen, pins, mirror, phase>>
      BY <1>6 DEF ZeroHC
    <2>2. TypeOK'
      BY <1>1, <1>2, <2>1 DEF IInv, TypeOK, WidthsAreSound
    <2>3. NextEdgeIsNear'
      BY <1>6, <2>1 DEF IInv, NextEdgeIsNear
    <2>4. Counted' /\ GeneratorOwnsNINT' /\ MirrorIsTrueWhenPaused' /\ Asked'
      BY <1>1, <1>6, <2>1
      DEF IInv, Counted, GeneratorOwnsNINT, MirrorIsTrueWhenPaused, Asked
    <2> QED  BY <2>2, <2>3, <2>4 DEF IInv
  <1> QED  BY <1>5, <1>6

LEMMA StutterKeeps == IInv /\ UNCHANGED vars => IInv'
  <1> SUFFICES ASSUME IInv, UNCHANGED vars PROVE IInv'
    OBVIOUS
  <1>1. TypeOK'
    BY DEF IInv, vars, TypeOK, WidthsAreSound
  <1>2. NextEdgeIsNear' /\ Counted'
    BY DEF IInv, vars, NextEdgeIsNear, Counted, PhaseLength
  <1>3. GeneratorOwnsNINT' /\ MirrorIsTrueWhenPaused' /\ Asked'
    BY DEF IInv, vars, GeneratorOwnsNINT, MirrorIsTrueWhenPaused, Asked
  <1> QED  BY <1>1, <1>2, <1>3 DEF IInv

LEMMA StepKeeps == IInv /\ [Next]_vars => IInv'
  <1> SUFFICES ASSUME IInv, [Next]_vars PROVE IInv'
    OBVIOUS
  <1>1. CASE Edge
    BY <1>1, EdgeKeeps
  <1>2. CASE FrameEnd \/ Resume
    BY <1>2, FrameKeeps
  <1>3. CASE Verb
    <2>1. ASSUME NEW name \in UserPins, NEW value \in {0, 1}, SetInputPin(name, value)
          PROVE  IInv'
      BY <2>1, SetInputPinKeeps
    <2>2. ASSUME NEW e \in BOOLEAN, NEW p \in Widths \cup {gen.period},
                 NEW w \in Widths \cup {gen.pulseWidth}, SetIntGen(e, p, w)
          PROVE  IInv'
      <3>1. p \in Int /\ w \in Int
        BY IntGenAssumption DEF IInv, TypeOK, Gen
      <3> QED  BY <2>2, <3>1, SetIntGenKeeps
    <2> QED  BY <1>3, <2>1, <2>2, ZeroHCKeeps DEF Verb
  <1>4. CASE UNCHANGED vars
    BY <1>4, StutterKeeps
  <1> QED  BY <1>1, <1>2, <1>3, <1>4 DEF Next

LEMMA Invariance == Spec => []IInv
  <1> QED  BY InitHolds, StepKeeps, PTL DEF Spec

-----------------------------------------------------------------------------
(* The type of every variable, and the clamps: period >= pulseWidth + 1    *)
(* and pulseWidth >= 1 whatever a caller passes (bus.ts setIntGen).        *)
THEOREM TypeCorrect == Spec => []TypeOK
  <1>1. IInv => TypeOK
    BY DEF IInv
  <1> QED  BY <1>1, Invariance, PTL

(* The schedule survives a clock set back and widths changed at any time:  *)
(* the next edge is neither in the past nor more than a phase away.        *)
THEOREM ScheduleIsNear == Spec => []NextEdgeIsNear
  <1>1. IInv => NextEdgeIsNear
    BY DEF IInv
  <1> QED  BY <1>1, Invariance, PTL

(* Once it pulses, the generator alone moves nINT (store setInputPin).     *)
THEOREM PinIsOwned == Spec => []GeneratorOwnsNINT
  <1>1. IInv => GeneratorOwnsNINT
    BY DEF IInv
  <1> QED  BY <1>1, Invariance, PTL

(* The UI's pins are the bus's whenever the run loop is paused.            *)
THEOREM MirrorIsTrue == Spec => []MirrorIsTrueWhenPaused
  <1>1. IInv => MirrorIsTrueWhenPaused
    BY DEF IInv
  <1> QED  BY <1>1, Invariance, PTL

(* Only an edge moves the clock forward by one. *)
LEMMA OnlyEdgesTick == TypeOK /\ Next /\ hc' = hc + 1 => Edge
  <1> SUFFICES ASSUME TypeOK, Next, hc' = hc + 1, ~Edge PROVE FALSE
    OBVIOUS
  <1>1. hc \in Nat
    BY IntGenAssumption DEF TypeOK
  <1>2. hc' = hc \/ hc' = 0
    <2>1. CASE FrameEnd \/ Resume
      BY <2>1 DEF FrameEnd, Resume
    <2>2. CASE \E name \in UserPins, value \in {0, 1} : SetInputPin(name, value)
      BY <2>2 DEF SetInputPin
    <2>3. CASE \E e \in BOOLEAN, p \in Widths \cup {gen.period},
                  w \in Widths \cup {gen.pulseWidth} : SetIntGen(e, p, w)
      BY <2>3 DEF SetIntGen
    <2>4. CASE ZeroHC
      BY <2>4 DEF ZeroHC
    <2> QED  BY <2>1, <2>2, <2>3, <2>4 DEF Next, Verb
  <1> QED  BY <1>1, <1>2

(* Every pulse and every gap that no one retimed has its exact length.     *)
THEOREM PulsesAreExact == Spec => PulseIsExact
  <1> DEFINE Exact == hc' = hc + 1 /\ gen'.level # gen.level /\ phase.kind = "timed"
                        => phase.edges = PhaseLength(gen)
  <1>1. IInv /\ [Next]_vars => [Exact]_vars
    <2> SUFFICES ASSUME IInv, Next, hc' = hc + 1, gen'.level # gen.level, phase.kind = "timed"
                 PROVE  phase.edges = PhaseLength(gen)
      OBVIOUS
    <2>1. hc \in Nat
      BY IntGenAssumption DEF IInv, TypeOK
    <2>2. Edge
      BY OnlyEdgesTick DEF IInv
    <2>3. Due
      <3>1. ~Due => gen' = gen
        BY <2>2 DEF Edge, Advanced
      <3> QED  BY <3>1
    <2>4. gen.nextEdgeHc = hc
      BY <2>3, Advances DEF IInv
    <2>5. phase.edges + (gen.nextEdgeHc - hc) = PhaseLength(gen) /\ phase.edges \in Nat
      BY DEF IInv, Counted, TypeOK
    <2> QED  BY <2>1, <2>4, <2>5
  <1> QED  BY <1>1, Invariance, PTL DEF Spec, PulseIsExact

(* One check of nNMI is at most one cpu.nmi(), on the edge after it.       *)
THEOREM NmiIsAsked == Spec => NmiOnlyWhenAsked
  <1>1. IInv /\ [Next]_vars => [hc' = hc + 1 /\ nmiCalled' => nmiAsked]_vars
    <2> SUFFICES ASSUME IInv, Next, hc' = hc + 1, nmiCalled'
                 PROVE  nmiAsked
      OBVIOUS
    <2>1. hc \in Nat
      BY IntGenAssumption DEF IInv, TypeOK
    <2>2. Edge
      BY OnlyEdgesTick DEF IInv
    <2>3. ResolvedPins["nNMI"] = 0
      BY <2>2 DEF Edge, NmiFalls
    <2>4. pins["nNMI"] = 0
      BY <2>3 DEF ResolvedPins, IInv, TypeOK, InputPinName
    <2> QED  BY <2>4 DEF IInv, Asked
  <1> QED  BY <1>1, Invariance, PTL DEF Spec, NmiOnlyWhenAsked

-----------------------------------------------------------------------------
(* The refinement: hc and nextEdgeHc are a countdown. *)

Left == IF gen.enabled THEN gen.nextEdgeHc - hc ELSE 0

LEMMA SoundWidths == 
  ASSUME gen \in Gen, WidthsAreSound(gen)
  PROVE  Train!Sound(gen.period, gen.pulseWidth)
  BY DEF Gen, WidthsAreSound, Train!Sound

LEMMA EdgeTicks == IInv /\ Edge => [Train!TrainNext]_(Train!trainVars)
  <1> SUFFICES ASSUME IInv, Edge PROVE [Train!TrainNext]_(Train!trainVars)
    OBVIOUS
  <1> DEFINE a == Advanced(gen)
  <1>1. /\ a \in Gen /\ WidthsAreSound(a) /\ (a.enabled <=> gen.enabled)
        /\ a.period = gen.period /\ a.pulseWidth = gen.pulseWidth
        /\ Due => /\ gen.enabled /\ gen.nextEdgeHc = hc
                  /\ a.level = 1 - gen.level
                  /\ a.nextEdgeHc = hc + PhaseLength(a)
        /\ ~Due => a = gen
        /\ ~Due /\ gen.enabled => hc < gen.nextEdgeHc
    BY Advances DEF IInv
  <1>2. gen' = a /\ hc' = hc + 1
    BY DEF Edge
  <1>3. hc \in Nat /\ gen \in Gen /\ gen.level \in {0, 1} /\ gen.nextEdgeHc \in Nat \cup {Infinity}
    BY IntGenAssumption DEF IInv, TypeOK, Gen
  <1>4. a.enabled \in BOOLEAN /\ gen.enabled \in BOOLEAN /\ a.enabled = gen.enabled
    BY <1>1, <1>3 DEF Gen
  <1>5. PhaseLength(a) \in Nat
    BY <1>1, PhaseLengthType
  <1> HIDE DEF a
  <1>6. CASE Due
    <2>1. Left = 0 /\ Left' = PhaseLength(a) - 1
      BY <1>1, <1>2, <1>3, <1>4, <1>5, <1>6 DEF Left
    <2>2. PhaseLength(a) = Train!PhaseOf(1 - gen.level, gen.period, gen.pulseWidth)
      BY <1>1, <1>6 DEF PhaseLength, Train!PhaseOf
    <2>3. gen'.enabled = gen.enabled /\ gen'.period = gen.period
            /\ gen'.pulseWidth = gen.pulseWidth /\ gen'.level = 1 - gen.level
      BY <1>1, <1>2, <1>4, <1>6
    <2>4. Train!Turn
      BY <1>1, <1>6, <2>1, <2>2, <2>3 DEF Train!Turn, Left
    <2> QED  BY <2>4 DEF Train!TrainNext
  <1>7. CASE ~Due /\ gen.enabled
    <2>1. gen' = gen /\ gen.nextEdgeHc \in Nat /\ hc < gen.nextEdgeHc
      BY <1>1, <1>2, <1>3, <1>7 DEF Infinity
    <2>2. Left > 0 /\ Left' = Left - 1
      BY <1>2, <1>3, <1>7, <2>1 DEF Left
    <2>3. Train!Wait
      BY <1>7, <2>1, <2>2 DEF Train!Wait, Left
    <2> QED  BY <2>3 DEF Train!TrainNext
  <1>8. CASE ~Due /\ ~gen.enabled
    <2>1. gen' = gen
      BY <1>1, <1>2, <1>8
    <2>2. Left' = Left
      BY <1>8, <2>1 DEF Left
    <2> QED  BY <2>1, <2>2 DEF Train!trainVars, Left
  <1> QED  BY <1>6, <1>7, <1>8

LEMMA SetIntGenRetimes ==
  ASSUME IInv, NEW e \in BOOLEAN, NEW p \in Int, NEW w \in Int, SetIntGen(e, p, w)
  PROVE  Train!TrainNext
  <1> DEFINE r == Reconfigured(gen, e, p, w, hc)
  <1>1. gen' = r /\ hc' = hc
    BY DEF SetIntGen
  <1>2. /\ r \in Gen /\ WidthsAreSound(r) /\ (r.enabled <=> e)
        /\ gen.enabled /\ e =>
             /\ r.level = gen.level
             /\ r.nextEdgeHc = Larger(hc, gen.nextEdgeHc - PhaseLength(gen) + PhaseLength(r))
        /\ ~gen.enabled /\ e => r.level = 1 /\ r.nextEdgeHc = hc
        /\ ~e => r.level = 1 /\ r.nextEdgeHc = Infinity
    BY ReconfiguredIsNear DEF IInv
  <1> HIDE DEF r
  <1>3. hc \in Nat /\ gen \in Gen /\ WidthsAreSound(gen)
          /\ gen.nextEdgeHc \in Nat \cup {Infinity}
    BY IntGenAssumption DEF IInv, TypeOK, Gen
  <1>4. Train!Sound(gen'.period, gen'.pulseWidth)
    BY <1>1, <1>2 DEF Gen, WidthsAreSound, Train!Sound
  <1>5. CASE e /\ ~gen.enabled
    <2>1. gen'.enabled /\ gen'.level = 1 /\ Left' = 0
      BY <1>1, <1>2, <1>3, <1>5 DEF Left
    <2>2. Train!Restart
      BY <1>4, <2>1 DEF Train!Restart, Left
    <2> QED  BY <2>2 DEF Train!TrainNext
  <1>6. CASE ~e
    <2>1. ~gen'.enabled /\ gen'.level = 1 /\ Left' = 0
      BY <1>1, <1>2, <1>6 DEF Left
    <2>2. Train!Stop
      BY <1>4, <2>1 DEF Train!Stop, Left
    <2> QED  BY <2>2 DEF Train!TrainNext
  <1>7. CASE e /\ gen.enabled
    <2> DEFINE late == PhaseLength(r) - PhaseLength(gen)
    <2>1. PhaseLength(r) \in Nat /\ PhaseLength(gen) \in Nat
      BY <1>2, <1>3, PhaseLengthType
    <2>2. gen.nextEdgeHc \in Nat /\ hc <= gen.nextEdgeHc
      BY <1>3, <1>7 DEF IInv, NextEdgeIsNear, Infinity
    <2>3. Left = gen.nextEdgeHc - hc /\ Left' = r.nextEdgeHc - hc
      BY <1>1, <1>2, <1>7 DEF Left
    <2>4. r.nextEdgeHc = Larger(hc, gen.nextEdgeHc + late)
      <3>1. r.nextEdgeHc = Larger(hc, gen.nextEdgeHc - PhaseLength(gen) + PhaseLength(r))
        BY <1>2, <1>7
      <3>2. gen.nextEdgeHc - PhaseLength(gen) + PhaseLength(r) = gen.nextEdgeHc + late
        BY <2>1, <2>2
      <3> QED  BY <3>1, <3>2
    <2>5. late \in Int
      BY <2>1
    <2>6. late = Train!PhaseOf(gen.level, r.period, r.pulseWidth)
                   - Train!PhaseOf(gen.level, gen.period, gen.pulseWidth)
      BY <1>2, <1>7 DEF PhaseLength, Train!PhaseOf
    <2> HIDE DEF late
    <2>7. Left' = IF Left + late > 0 THEN Left + late ELSE 0
      BY <1>3, <2>2, <2>3, <2>4, <2>5 DEF Larger
    <2>8. gen.enabled /\ gen'.enabled /\ gen'.level = gen.level
      BY <1>1, <1>2, <1>7
    <2>9. Train!Retime
      BY <1>1, <1>4, <2>6, <2>7, <2>8 DEF Train!Retime, Left
    <2> QED  BY <2>9 DEF Train!TrainNext
  <1> QED  BY <1>5, <1>6, <1>7

LEMMA ZeroHCRestarts == IInv /\ ZeroHC => [Train!TrainNext]_(Train!trainVars)
  <1> SUFFICES ASSUME IInv, ZeroHC PROVE [Train!TrainNext]_(Train!trainVars)
    OBVIOUS
  <1>1. CASE gen.enabled
    <2>1. gen \in Gen
      BY DEF IInv, TypeOK
    <2>2. gen' = Restarted /\ hc' = 0
      BY <1>1 DEF ZeroHC
    <2>3. Restarted \in Gen /\ WidthsAreSound(Restarted) /\ Restarted.enabled
            /\ Restarted.level = 1 /\ Restarted.nextEdgeHc = 0
      BY <1>1, <2>1, RestartedAtZero
    <2>4. Train!Sound(gen'.period, gen'.pulseWidth)
      BY <2>2, <2>3 DEF Gen, WidthsAreSound, Train!Sound
    <2>5. Train!Restart
      BY <2>2, <2>3, <2>4 DEF Train!Restart
    <2> QED  BY <2>5 DEF Train!TrainNext
  <1>2. CASE ~gen.enabled
    <2>1. gen' = gen
      BY <1>2 DEF ZeroHC
    <2> QED  BY <1>2, <2>1 DEF Train!trainVars
  <1> QED  BY <1>1, <1>2

(* The generator, scheduled at absolute half cycles of a clock that a user *)
(* may set back, implements the pulse train that knows no clock.           *)
THEOREM GeneratorImplementsTrain == Spec => ImplementsPulseTrain
  <1>1. Init /\ IInv => Train!TrainInit
    <2> SUFFICES ASSUME Init, IInv PROVE Train!TrainInit
      OBVIOUS
    <2>1. gen \in Gen /\ WidthsAreSound(gen) /\ hc = 0
      BY DEF IInv, TypeOK, Init
    <2>2. PICK e \in BOOLEAN, p \in Widths, w \in Widths : gen = BootGen(e, p, w)
      BY DEF Init
    <2>3. gen.level = 1 /\ gen.nextEdgeHc = IF gen.enabled THEN 0 ELSE Infinity
      <3>1. p \in Int /\ w \in Int
        BY IntGenAssumption
      <3> QED  BY <2>2, <3>1, BootIsSound
    <2>4. gen.enabled \in BOOLEAN
      BY <2>1 DEF Gen
    <2> QED  BY <2>1, <2>3, <2>4, SoundWidths DEF Train!TrainInit
  <1>2. IInv /\ [Next]_vars => [Train!TrainNext]_(Train!trainVars)
    <2> SUFFICES ASSUME IInv, [Next]_vars PROVE [Train!TrainNext]_(Train!trainVars)
      OBVIOUS
    <2>1. CASE Edge
      BY <2>1, EdgeTicks
    <2>2. CASE FrameEnd \/ Resume \/ UNCHANGED vars
      BY <2>2 DEF FrameEnd, Resume, vars, Train!trainVars
    <2>3. CASE Verb
      <3>1. ASSUME NEW name \in UserPins, NEW value \in {0, 1}, SetInputPin(name, value)
            PROVE  UNCHANGED Train!trainVars
        BY <3>1 DEF SetInputPin, Train!trainVars
      <3>2. ASSUME NEW e \in BOOLEAN, NEW p \in Widths \cup {gen.period},
                   NEW w \in Widths \cup {gen.pulseWidth}, SetIntGen(e, p, w)
            PROVE  Train!TrainNext
        <4>1. p \in Int /\ w \in Int
          BY IntGenAssumption DEF IInv, TypeOK, Gen
        <4> QED  BY <3>2, <4>1, SetIntGenRetimes
      <3> QED  BY <2>3, <3>1, <3>2, ZeroHCRestarts DEF Verb
    <2> QED  BY <2>1, <2>2, <2>3 DEF Next
  <1> QED  BY <1>1, <1>2, InitHolds, Invariance, PTL DEF Spec, ImplementsPulseTrain, Train!TrainSpec
=============================================================================
