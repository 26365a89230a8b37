---------------------------- MODULE Z80DbgProofs ----------------------------
(***************************************************************************)
(* Theorems about Z80Dbg, for every set of addresses, operands and data,   *)
(* and however long the tracer is off.                                     *)
(*                                                                         *)
(* What shapes an instruction may have is used once, in Wellformed; what   *)
(* follows speaks of the place within the instruction, cycle and t, and of *)
(* the bytes that the bus has shown by then.                               *)
(***************************************************************************)
EXTENDS Z80Dbg, SequenceTheorems, TLAPS

-----------------------------------------------------------------------------
(* The instructions. *)

Kinds == {"normal", "nmi", "int", "halt", "special_reset"}

(* Which chains there are: what may follow a prefix in the same            *)
(* instruction, and that a prefix which stands alone, with cycles to come, *)
(* is a wasted one, or was on the bus in an acknowledge cycle.             *)
Wellformed(i) ==
  /\ i.fetch \in Seq(Byte) /\ i.operands \in Seq(Byte) /\ i.data \in Seq(Byte)
  /\ Len(i.fetch) \in {1, 2} /\ Len(i.operands) <= 2
  /\ i.kind \in Kinds /\ i.more \in BOOLEAN
  /\ Len(i.fetch) = 2 =>
       /\ i.kind = "normal" /\ i.fetch[1] \in Prefix /\ i.fetch[2] # "ed"
       /\ i.fetch[2] = "dd" =>
            i.fetch[1] # "dd" /\ Len(i.operands) = 0 /\ Len(i.data) = 0 /\ ~i.more
       /\ i.fetch[2] = "cb" => Len(i.operands) = 2
  /\ Len(i.fetch) = 1 /\ i.fetch[1] \in Prefix
       /\ (Len(i.operands) # 0 \/ Len(i.data) # 0 \/ i.more)
     => /\ Len(i.operands) = 0
        /\ \/ Acknowledges(i)
           \/ i.fetch[1] = "dd" /\ Len(i.data) = 0 /\ ShapeOf(i) \in Wasted

(* One fetch, and two.                                                     *)
LEMMA OneFetch ==
  ASSUME NEW k \in Kinds, NEW b \in Byte, NEW o \in Seq(Byte), NEW d \in Seq(Byte),
         NEW m \in BOOLEAN, Len(o) <= 2,
         NEW s, s = Shape(k, <<b>>, o, d, m),
         b \in Prefix => \/ Len(o) = 0 /\ Len(d) = 0 /\ ~m
                         \/ Len(o) = 0 /\ k \in {"int", "nmi"}
                         \/ b = "dd" /\ Len(o) = 0 /\ Len(d) = 0 /\ s \in Wasted
  PROVE  Wellformed(s) /\ ShapeOf(s) = s
  <1>1. s.kind = k /\ s.fetch = <<b>> /\ s.operands = o /\ s.data = d
    BY DEF Shape
  <1>2. s.more = m
    BY DEF Shape
  <1>3. ShapeOf(s) = s
    BY <1>1, <1>2 DEF ShapeOf
  <1>4. s.fetch \in Seq(Byte) /\ Len(s.fetch) = 1 /\ s.fetch[1] = b
    <2>1. \A x \in Byte : <<x>> \in Seq(Byte) /\ Len(<<x>>) = 1 /\ <<x>>[1] = x
      OBVIOUS
    <2> QED  BY <1>1, <2>1, Zenon
  <1>5. /\ s.operands \in Seq(Byte) /\ s.data \in Seq(Byte) /\ Len(s.operands) <= 2
        /\ s.kind \in Kinds /\ s.more \in BOOLEAN
    BY <1>1, <1>2
  <1>6. k \in {"int", "nmi"} => Acknowledges(s)
    BY <1>1 DEF Acknowledges
  <1>7. s.fetch[1] \in Prefix /\ (Len(s.operands) # 0 \/ Len(s.data) # 0 \/ s.more)
          => /\ Len(s.operands) = 0
             /\ \/ Acknowledges(s)
                \/ s.fetch[1] = "dd" /\ Len(s.data) = 0 /\ ShapeOf(s) \in Wasted
    BY <1>1, <1>2, <1>3, <1>4, <1>6, Zenon
  <1>8. Len(s.fetch) # 2 /\ Len(s.fetch) \in {1, 2}
    BY <1>4
  <1> QED  BY <1>3, <1>4, <1>5, <1>7, <1>8, Zenon DEF Wellformed

LEMMA TwoFetches ==
  ASSUME NEW b \in Prefix, NEW c \in Byte, NEW o \in Seq(Byte), NEW d \in Seq(Byte),
         NEW m \in BOOLEAN, Len(o) <= 2, c # "ed",
         c = "dd" => b # "dd" /\ Len(o) = 0 /\ Len(d) = 0 /\ ~m,
         c = "cb" => Len(o) = 2,
         NEW s, s = Shape("normal", <<b, c>>, o, d, m)
  PROVE  Wellformed(s) /\ ShapeOf(s) = s
  <1>1. s.kind = "normal" /\ s.fetch = <<b, c>> /\ s.operands = o /\ s.data = d
    BY DEF Shape
  <1>2. s.more = m
    BY DEF Shape
  <1>3. ShapeOf(s) = s
    BY <1>1, <1>2 DEF ShapeOf
  <1>4. s.fetch \in Seq(Byte) /\ Len(s.fetch) = 2 /\ s.fetch[1] = b /\ s.fetch[2] = c
    <2>1. b \in Byte
      BY DEF Prefix, Byte
    <2>2. <<b, c>> \in Seq(Byte) /\ Len(<<b, c>>) = 2 /\ <<b, c>>[1] = b /\ <<b, c>>[2] = c
      BY <2>1
    <2> QED  BY <1>1, <2>2, Zenon
  <1>5. /\ s.operands \in Seq(Byte) /\ s.data \in Seq(Byte) /\ Len(s.operands) <= 2
        /\ s.kind \in Kinds /\ s.more \in BOOLEAN
    BY <1>1, <1>2 DEF Kinds
  <1>6. /\ s.kind = "normal" /\ s.fetch[1] \in Prefix /\ s.fetch[2] # "ed"
        /\ s.fetch[2] = "dd" =>
             s.fetch[1] # "dd" /\ Len(s.operands) = 0 /\ Len(s.data) = 0 /\ ~s.more
        /\ s.fetch[2] = "cb" => Len(s.operands) = 2
    BY <1>1, <1>2, <1>4, Zenon
  <1>7. Len(s.fetch) # 1 /\ Len(s.fetch) \in {1, 2}
    BY <1>4
  <1> QED  BY <1>3, <1>4, <1>5, <1>6, <1>7, Zenon DEF Wellformed

LEMMA Shapes ==
  ASSUME NEW s \in Insn
  PROVE  Wellformed(s) /\ ShapeOf(s) = s
  <1>1. /\ \A o \in Operands : o \in Seq(Byte) /\ Len(o) <= 2
        /\ \A d \in Data : d \in Seq(Byte)
        /\ AckByte \subseteq Byte /\ AckMore \subseteq BOOLEAN
    BY Z80DbgAssumption
  <1>2. <<>> \in Seq(Byte) /\ Len(<<>>) = 0 /\ 0 <= 2
    OBVIOUS
  <1>3. /\ "op" \in Byte /\ "dd" \in Byte /\ "cb" \in Byte /\ "op" \notin Prefix
        /\ "dd" \in Prefix /\ "ed" \in Prefix /\ "cb" \in Prefix
        /\ "op" # "ed" /\ "dd" # "ed" /\ "cb" # "ed" /\ "op" # "dd" /\ "op" # "cb" /\ "cb" # "dd"
    BY DEF Byte, Prefix
  <1>4. {"normal", "halt", "special_reset", "int", "nmi"} \subseteq Kinds
    BY DEF Kinds
  <1>5. ASSUME NEW f \in {<<"op">>, <<"dd", "op">>, <<"ed", "op">>}, NEW o \in Operands,
               NEW d \in Data, s = Shape("normal", f, o, d, FALSE)
        PROVE  Wellformed(s) /\ ShapeOf(s) = s
    <2>1. o \in Seq(Byte) /\ Len(o) <= 2 /\ d \in Seq(Byte) /\ FALSE \in BOOLEAN
      BY <1>1
    <2>2. CASE f = <<"op">>
      <3>1. s = Shape("normal", <<"op">>, o, d, FALSE)
        BY <1>5, <2>2
      <3> QED  BY <1>3, <1>4, <2>1, <3>1, OneFetch
    <2>3. CASE f = <<"dd", "op">>
      <3>1. s = Shape("normal", <<"dd", "op">>, o, d, FALSE)
        BY <1>5, <2>3
      <3> QED  BY <1>3, <2>1, <3>1, TwoFetches
    <2>4. CASE f = <<"ed", "op">>
      <3>1. s = Shape("normal", <<"ed", "op">>, o, d, FALSE)
        BY <1>5, <2>4
      <3> QED  BY <1>3, <2>1, <3>1, TwoFetches
    <2> QED  BY <2>2, <2>3, <2>4
  <1>6. ASSUME NEW f \in {<<"op">>, <<"dd", "op">>, <<"ed", "op">>, <<"cb", "op">>},
               s = Shape("normal", f, <<>>, <<>>, TRUE)
        PROVE  Wellformed(s) /\ ShapeOf(s) = s
    <2>1. TRUE \in BOOLEAN
      OBVIOUS
    <2>2. CASE f = <<"op">>
      <3>1. s = Shape("normal", <<"op">>, <<>>, <<>>, TRUE)
        BY <1>6, <2>2
      <3> QED  BY <1>2, <1>3, <1>4, <2>1, <3>1, OneFetch
    <2>3. ASSUME NEW p \in {"dd", "ed", "cb"}, f = <<p, "op">>
          PROVE  Wellformed(s) /\ ShapeOf(s) = s
      <3>1. s = Shape("normal", <<p, "op">>, <<>>, <<>>, TRUE)
        BY <1>6, <2>3
      <3>2. p \in Prefix
        BY DEF Prefix
      <3> QED  BY <1>2, <1>3, <2>1, <3>1, <3>2, TwoFetches
    <2> QED  BY <2>2, <2>3
  <1>7. ASSUME NEW d \in Data, s = Shape("normal", <<"cb", "op">>, <<>>, d, FALSE)
        PROVE  Wellformed(s) /\ ShapeOf(s) = s
    <2>1. d \in Seq(Byte) /\ FALSE \in BOOLEAN
      BY <1>1
    <2> QED  BY <1>2, <1>3, <1>7, <2>1, TwoFetches
  <1>8. ASSUME NEW p \in {"ed", "cb"}, s = Shape("normal", <<p, "dd">>, <<>>, <<>>, FALSE)
        PROVE  Wellformed(s) /\ ShapeOf(s) = s
    <2>1. p \in Prefix /\ p # "dd" /\ FALSE \in BOOLEAN
      BY DEF Prefix
    <2> QED  BY <1>2, <1>3, <1>8, <2>1, TwoFetches
  <1>9. ASSUME NEW o \in {x \in Operands : Len(x) = 2}, NEW d \in Data,
               s = Shape("normal", <<"dd", "cb">>, o, d, FALSE)
        PROVE  Wellformed(s) /\ ShapeOf(s) = s
    <2>1. o \in Seq(Byte) /\ Len(o) = 2 /\ Len(o) <= 2 /\ d \in Seq(Byte) /\ FALSE \in BOOLEAN
      BY <1>1
    <2> QED  BY <1>3, <1>9, <2>1, TwoFetches
  <1>10. ASSUME s \in Wasted
         PROVE  Wellformed(s) /\ ShapeOf(s) = s
    <2>1. s = Shape("normal", <<"dd">>, <<>>, <<>>, TRUE) /\ TRUE \in BOOLEAN
      BY <1>10 DEF Wasted
    <2> QED  BY <1>2, <1>3, <1>4, <1>10, <2>1, OneFetch
  <1>11. ASSUME NEW k \in {"halt", "special_reset"}, NEW b \in {"op", "dd"},
                s = Shape(k, <<b>>, <<>>, <<>>, FALSE)
         PROVE  Wellformed(s) /\ ShapeOf(s) = s
    <2>1. k \in Kinds /\ b \in Byte /\ FALSE \in BOOLEAN
      BY <1>3, <1>4
    <2> QED  BY <1>2, <1>11, <2>1, OneFetch
  <1>12. ASSUME NEW k \in {"int", "nmi"}, NEW b \in AckByte, NEW d \in Data, NEW m \in AckMore,
                s = Shape(k, <<b>>, <<>>, d, m)
         PROVE  Wellformed(s) /\ ShapeOf(s) = s
    <2>1. k \in Kinds /\ b \in Byte /\ d \in Seq(Byte) /\ m \in BOOLEAN
      BY <1>1, <1>4
    <2> QED  BY <1>2, <1>12, <2>1, OneFetch
  <1>13. CASE s \in Ordinary
    <2>1. \/ \E f \in {<<"op">>, <<"dd", "op">>, <<"ed", "op">>}, o \in Operands, d \in Data :
               s = Shape("normal", f, o, d, FALSE)
          \/ \E f \in {<<"op">>, <<"dd", "op">>, <<"ed", "op">>, <<"cb", "op">>} :
               s = Shape("normal", f, <<>>, <<>>, TRUE)
          \/ \E d \in Data : s = Shape("normal", <<"cb", "op">>, <<>>, d, FALSE)
          \/ \E p \in {"ed", "cb"} : s = Shape("normal", <<p, "dd">>, <<>>, <<>>, FALSE)
          \/ \E o \in {x \in Operands : Len(x) = 2}, d \in Data :
               s = Shape("normal", <<"dd", "cb">>, o, d, FALSE)
      BY <1>13 DEF Ordinary, Shape
    <2> QED  BY <1>5, <1>6, <1>7, <1>8, <1>9, <2>1, Zenon
  <1>14. CASE s \in Idling
    <2>1. \E k \in {"halt", "special_reset"}, b \in {"op", "dd"} :
            s = Shape(k, <<b>>, <<>>, <<>>, FALSE)
      BY <1>14 DEF Idling, Shape
    <2> QED  BY <1>11, <2>1, Zenon
  <1>15. CASE s \in Acks
    <2>1. \E k \in {"int", "nmi"}, b \in AckByte, d \in Data, m \in AckMore :
            s = Shape(k, <<b>>, <<>>, d, m)
      BY <1>15 DEF Acks, Shape
    <2> QED  BY <1>12, <2>1, Zenon
  <1> QED  BY <1>10, <1>13, <1>14, <1>15 DEF Insn

(* An instruction somewhere in memory is one of the shapes.                *)
LEMMA PlacedShapes ==
  ASSUME NEW shapes, shapes \subseteq Insn, NEW i \in Placed(shapes)
  PROVE  Wellformed(i) /\ i.addr \in Nat /\ ShapeOf(i) \in shapes
  <1>1. PICK a \in Addr, s \in shapes :
          i = [addr |-> a, kind |-> s.kind, fetch |-> s.fetch, operands |-> s.operands,
               data |-> s.data, more |-> s.more]
    BY DEF Placed
  <1>2. /\ i.addr = a /\ i.kind = s.kind /\ i.fetch = s.fetch /\ i.operands = s.operands
        /\ i.data = s.data /\ i.more = s.more
    BY <1>1
  <1>3. Wellformed(s) /\ ShapeOf(s) = s
    BY Shapes
  <1>4. ShapeOf(i) = ShapeOf(s)
    BY <1>2 DEF ShapeOf
  <1>5. Wellformed(i)
    BY <1>2, <1>3, <1>4 DEF Wellformed, Acknowledges
  <1> QED  BY <1>2, <1>3, <1>4, <1>5, Z80DbgAssumption

(* After a wasted prefix comes the prefix that overrides it.               *)
LEMMA WhatFollows ==
  ASSUME Wellformed(insn), ShapeOf(insn) \in Insn,
         NEW i \in Placed(Following(ShapeOf(insn)))
  PROVE  /\ Wellformed(i) /\ i.addr \in Nat /\ ShapeOf(i) \in Insn
         /\ ShapeOf(insn) \in Wasted => i.fetch[1] \in {"dd", "ed"}
  <1>1. Following(ShapeOf(insn)) \subseteq Insn
    BY DEF Following, Insn
  <1>2. Wellformed(i) /\ i.addr \in Nat /\ ShapeOf(i) \in Following(ShapeOf(insn))
    BY <1>1, PlacedShapes
  <1>3. ASSUME ShapeOf(insn) \in Wasted PROVE i.fetch[1] \in {"dd", "ed"}
    <2>1. ShapeOf(i).fetch = i.fetch
      BY DEF ShapeOf, Shape
    <2>2. CASE ShapeOf(i) \in Wasted
      <3>1. ShapeOf(i).fetch = <<"dd">>
        BY <2>2 DEF Wasted, Shape
      <3> QED  BY <2>1, <3>1
    <2>3. CASE ShapeOf(i) \notin Wasted
      <3>1. ShapeOf(i).fetch[1] \in {"dd", "ed"}
        BY <1>2, <1>3, <2>3 DEF Following
      <3> QED  BY <2>1, <3>1
    <2> QED  BY <2>2, <2>3
  <1> QED  BY <1>1, <1>2, <1>3

-----------------------------------------------------------------------------
(* Places within an instruction. *)

(* The bytes of an instruction's own, and how many of them the bus has     *)
(* shown the tracer by now.                                                *)
EncLen == Len(Encoding(insn))

Shown == IF IsFetch THEN (IF t = 4 THEN cycle ELSE cycle - 1)
                    ELSE IF IsOperand THEN cycle - 1 ELSE EncLen

CpuOK ==
  /\ Wellformed(insn) /\ ShapeOf(insn) \in Insn /\ insn.addr \in Nat
  /\ cycle \in 1 .. Cycles /\ t \in 1 .. StepsOfCycle

LEMMA Sizes ==
  ASSUME Wellformed(insn)
  PROVE  /\ Fetches \in {1, 2} /\ Fetches \in Nat
         /\ EncLen = Fetches + Len(insn.operands) /\ EncLen \in Fetches .. 4 /\ EncLen \in Nat
         /\ Cycles = EncLen + Len(insn.data) /\ Cycles \in Nat /\ Cycles >= EncLen
         /\ Encoding(insn) \in Seq(Byte)
         /\ \A k \in 1 .. Fetches : Encoding(insn)[k] = insn.fetch[k]
         /\ cycle \in 1 .. Cycles => BusByte \in Byte
         /\ cycle \in 1 .. EncLen => BusByte = Encoding(insn)[cycle]
  <1> DEFINE f == insn.fetch
             o == insn.operands
             d == insn.data
  <1>1. /\ f \in Seq(Byte) /\ o \in Seq(Byte) /\ d \in Seq(Byte)
        /\ Len(f) \in {1, 2} /\ Len(o) <= 2
    BY DEF Wellformed
  <1>2. Encoding(insn) = f \o o /\ Fetches = Len(f)
    BY DEF Encoding, Fetches
  <1>3. BusByte = ((f \o o) \o d)[cycle] /\ Cycles = Len(f \o o) + Len(d)
    BY <1>2 DEF BusByte, Cycles
  <1> HIDE DEF f, o, d
  <1>4. /\ f \o o \in Seq(Byte) /\ Len(f \o o) = Len(f) + Len(o)
        /\ \A k \in 1 .. Len(f) : (f \o o)[k] = f[k]
    BY <1>1
  <1>5. /\ (f \o o) \o d \in Seq(Byte) /\ Len((f \o o) \o d) = Len(f \o o) + Len(d)
        /\ \A k \in 1 .. Len(f \o o) : ((f \o o) \o d)[k] = (f \o o)[k]
    BY <1>1, <1>4
  <1>6. Len(f) \in Nat /\ Len(o) \in Nat /\ Len(d) \in Nat
    BY <1>1
  <1>7. Fetches \in {1, 2} /\ Fetches \in Nat
    BY <1>1, <1>2
  <1>8. EncLen = Fetches + Len(o) /\ EncLen \in Fetches .. 4 /\ EncLen \in Nat
    BY <1>1, <1>2, <1>4, <1>6 DEF EncLen
  <1>9. Cycles = EncLen + Len(d) /\ Cycles \in Nat /\ Cycles >= EncLen
    BY <1>2, <1>3, <1>6, <1>8 DEF EncLen
  <1>10. cycle \in 1 .. Cycles => BusByte \in Byte
    <2> SUFFICES ASSUME cycle \in 1 .. Cycles PROVE BusByte \in Byte
      OBVIOUS
    <2>1. cycle \in 1 .. Len((f \o o) \o d)
      BY <1>3, <1>5
    <2>2. ((f \o o) \o d)[cycle] \in Byte
      BY <1>5, <2>1
    <2> QED  BY <1>3, <2>2
  <1>11. cycle \in 1 .. EncLen => BusByte = Encoding(insn)[cycle]
    BY <1>2, <1>3, <1>5 DEF EncLen
  <1> QED  BY <1>2, <1>4, <1>7, <1>8, <1>9, <1>10, <1>11 DEF f, o, d

(* Which step is taken where.                                              *)
LEMMA Steps ==
  ASSUME CpuOK
  PROVE  /\ NextStep = "M1_T1_0" <=> IsFetch /\ t = 1
         /\ NextStep = "M1_T2_0" <=> IsFetch /\ t = 2
         /\ NextStep = "M1_T3_0" <=> IsFetch /\ t = 3
         /\ NextStep = "M1_T3_1" <=> IsFetch /\ t = 4
         /\ NextStep = "OP_RD_T1_0" <=> IsOperand /\ t = 1
         /\ NextStep = "M_RD_T1_0" <=> ~IsFetch /\ ~IsOperand /\ t = 1
         /\ NextStep = "RD_T3_1" <=> ~IsFetch /\ t = 2
         /\ IsFetch => t \in {1, 2, 3, 4}
         /\ ~IsFetch => t \in {1, 2}
         /\ IsOperand => ~IsFetch
         /\ IsFetch <=> cycle <= Fetches
         /\ IsOperand <=> Fetches < cycle /\ cycle <= EncLen
         /\ cycle \in 1 .. Cycles
  <1>1. cycle \in 1 .. Cycles /\ t \in 1 .. StepsOfCycle /\ Wellformed(insn)
    BY DEF CpuOK
  <1>2. Fetches \in {1, 2} /\ Fetches \in Nat /\ Cycles \in Nat /\ EncLen \in Nat
    BY <1>1, Sizes
  <1>3. IsFetch <=> cycle <= Fetches
    BY DEF IsFetch
  <1>4. IsOperand <=> Fetches < cycle /\ cycle <= EncLen
    BY <1>1, <1>2, <1>3 DEF IsOperand, EncLen
  <1>5. IsOperand => ~IsFetch
    BY DEF IsOperand
  <1>6. CASE IsFetch
    <2>1. t \in {1, 2, 3, 4}
      BY <1>1, <1>6 DEF StepsOfCycle
    <2>2. NextStep = <<"M1_T1_0", "M1_T2_0", "M1_T3_0", "M1_T3_1">>[t]
      BY <1>6 DEF NextStep
    <2>3. /\ t = 1 => NextStep = "M1_T1_0"
          /\ t = 2 => NextStep = "M1_T2_0"
          /\ t = 3 => NextStep = "M1_T3_0"
          /\ t = 4 => NextStep = "M1_T3_1"
      BY <2>2
    <2> QED  BY <1>1, <1>3, <1>4, <1>5, <1>6, <2>1, <2>3
  <1>7. CASE ~IsFetch
    <2>1. t \in {1, 2}
      BY <1>1, <1>7 DEF StepsOfCycle
    <2>2. NextStep = <<IF IsOperand THEN "OP_RD_T1_0" ELSE "M_RD_T1_0", "RD_T3_1">>[t]
      BY <1>7 DEF NextStep
    <2>3. /\ t = 1 /\ IsOperand => NextStep = "OP_RD_T1_0"
          /\ t = 1 /\ ~IsOperand => NextStep = "M_RD_T1_0"
          /\ t = 2 => NextStep = "RD_T3_1"
      BY <2>2
    <2> QED  BY <1>1, <1>3, <1>4, <1>5, <1>7, <2>1, <2>3
  <1> QED  BY <1>6, <1>7

(* Where the CPU is after an edge.                                         *)
WithinCycle == t < StepsOfCycle
NextCycle   == t = StepsOfCycle /\ cycle < Cycles
NextInsn    == t = StepsOfCycle /\ cycle = Cycles

LEMMA CpuMoves ==
  ASSUME CpuOK, CpuStep
  PROVE  /\ CpuOK'
         /\ \/ /\ WithinCycle
               /\ t' = t + 1 /\ cycle' = cycle /\ insn' = insn
            \/ /\ NextCycle
               /\ t' = 1 /\ cycle' = cycle + 1 /\ insn' = insn
            \/ /\ NextInsn
               /\ t' = 1 /\ cycle' = 1
               /\ ShapeOf(insn) \in Wasted => insn'.fetch[1] \in {"dd", "ed"}
  <1>1. /\ Wellformed(insn) /\ cycle \in 1 .. Cycles /\ t \in 1 .. StepsOfCycle
        /\ ShapeOf(insn) \in Insn /\ insn.addr \in Nat
    BY DEF CpuOK
  <1>2. Cycles \in Nat /\ Fetches \in Nat
    BY <1>1, Sizes
  <1>3. StepsOfCycle \in {2, 4}
    BY DEF StepsOfCycle
  <1>4. CASE WithinCycle
    <2>1. t' = t + 1 /\ insn' = insn /\ cycle' = cycle
      BY <1>1, <1>3, <1>4 DEF CpuStep, WithinCycle
    <2>2. StepsOfCycle' = StepsOfCycle /\ Cycles' = Cycles /\ ShapeOf(insn)' = ShapeOf(insn)
      BY <2>1 DEF StepsOfCycle, IsFetch, Fetches, Cycles, Encoding, ShapeOf
    <2>3. t' \in 1 .. StepsOfCycle'
      BY <1>1, <1>3, <1>4, <2>1, <2>2 DEF WithinCycle
    <2>4. Wellformed(insn)'
      BY <1>1, <2>1
    <2>5. CpuOK'
      BY <1>1, <2>1, <2>2, <2>3, <2>4 DEF CpuOK
    <2> QED  BY <1>4, <2>1, <2>5
  <1>5. CASE NextCycle
    <2>1. t' = 1 /\ cycle' = cycle + 1 /\ insn' = insn
      BY <1>1, <1>2, <1>3, <1>5 DEF CpuStep, NextCycle
    <2>2. Cycles' = Cycles
      BY <2>1 DEF Cycles, Encoding
    <2>3. StepsOfCycle' \in {2, 4}
      BY DEF StepsOfCycle
    <2>4. Wellformed(insn)' /\ ShapeOf(insn)' = ShapeOf(insn)
      BY <1>1, <2>1
    <2>5. t' \in 1 .. StepsOfCycle' /\ cycle' \in 1 .. Cycles'
      BY <1>1, <1>2, <1>5, <2>1, <2>2, <2>3 DEF NextCycle
    <2>6. CpuOK'
      BY <1>1, <2>1, <2>4, <2>5 DEF CpuOK
    <2> QED  BY <1>5, <2>1, <2>6
  <1>6. CASE ~WithinCycle /\ ~NextCycle
    <2>1. t = StepsOfCycle /\ cycle = Cycles
      BY <1>1, <1>2, <1>3, <1>6 DEF WithinCycle, NextCycle
    <2>2. t' = 1 /\ cycle' = 1 /\ insn' \in Placed(Following(ShapeOf(insn)))
      BY <1>2, <1>3, <2>1 DEF CpuStep
    <2>3. /\ Wellformed(insn') /\ insn'.addr \in Nat /\ ShapeOf(insn') \in Insn
          /\ ShapeOf(insn) \in Wasted => insn'.fetch[1] \in {"dd", "ed"}
      BY <1>1, <2>2, WhatFollows
    <2>4. (Wellformed(insn) => Fetches \in {1, 2} /\ Cycles \in Nat /\ Cycles >= EncLen
                               /\ EncLen \in Fetches .. 4)'
      BY Sizes, PTL
    <2>5. Wellformed(insn)' /\ (ShapeOf(insn) \in Insn)' /\ (insn.addr \in Nat)'
      BY <2>3
    <2>6. cycle' \in 1 .. Cycles'
      BY <2>2, <2>4, <2>5
    <2>7. StepsOfCycle' \in {2, 4}
      BY DEF StepsOfCycle
    <2>8. t' \in 1 .. StepsOfCycle'
      BY <2>2, <2>7
    <2>9. CpuOK'
      BY <2>5, <2>6, <2>8 DEF CpuOK
    <2> QED  BY <2>1, <2>2, <2>3, <2>9 DEF NextInsn
  <1> QED  BY <1>4, <1>5, <1>6

(* Where an edge leads.                                                    *)
Onward == insn' = insn /\ Fetches' = Fetches /\ EncLen' = EncLen /\ Cycles' = Cycles

Places ==
  \/ /\ Onward /\ t' = t + 1 /\ cycle' = cycle
     /\ IsFetch' <=> IsFetch
     /\ IsOperand' <=> IsOperand
     /\ IsFetch => t \in {1, 2, 3}
     /\ ~IsFetch => t = 1
  \/ /\ Onward /\ t' = 1 /\ cycle' = cycle + 1
     /\ cycle < Cycles
     /\ IsFetch' <=> cycle + 1 <= Fetches
     /\ IsOperand' <=> Fetches < cycle + 1 /\ cycle + 1 <= EncLen
     /\ IsFetch => t = 4
     /\ ~IsFetch => t = 2
  \/ /\ t' = 1 /\ cycle' = 1
     /\ cycle = Cycles
     /\ IsFetch' /\ ~IsOperand'
     /\ IsFetch => t = 4 /\ Fetches = Cycles
     /\ ~IsFetch => t = 2
     /\ ShapeOf(insn) \in Wasted => insn'.fetch[1] \in {"dd", "ed"}

LEMMA Placing ==
  ASSUME CpuOK, CpuStep
  PROVE  CpuOK' /\ Places
  <1>1. CpuOK'
    BY CpuMoves
  <1>2. /\ Wellformed(insn) /\ cycle \in 1 .. Cycles /\ t \in 1 .. StepsOfCycle
    BY DEF CpuOK
  <1>3. Cycles \in Nat /\ Fetches \in {1, 2} /\ EncLen \in Fetches .. 4 /\ Cycles >= EncLen
    BY <1>2, Sizes
  <1>4. /\ IsFetch => t \in {1, 2, 3, 4}
        /\ ~IsFetch => t \in {1, 2}
        /\ IsFetch <=> cycle <= Fetches
        /\ IsOperand <=> Fetches < cycle /\ cycle <= EncLen
    BY Steps
  <1>5. (CpuOK => /\ IsFetch <=> cycle <= Fetches
                  /\ IsOperand <=> Fetches < cycle /\ cycle <= EncLen
                  /\ cycle \in 1 .. Cycles)'
    BY Steps, PTL
  <1>6. (Wellformed(insn) => Fetches \in {1, 2} /\ EncLen \in Fetches .. 4)'
    BY Sizes, PTL
  <1>7. StepsOfCycle = IF IsFetch THEN 4 ELSE 2
    BY DEF StepsOfCycle
  <1>8. ASSUME insn' = insn PROVE Onward
    BY <1>8 DEF Onward, Fetches, EncLen, Cycles, Encoding
  <1>9. CASE /\ WithinCycle
             /\ t' = t + 1 /\ cycle' = cycle /\ insn' = insn
    <2>1. Onward
      BY <1>8, <1>9
    <2>2. /\ IsFetch' <=> IsFetch
          /\ IsOperand' <=> IsOperand
      BY <1>1, <1>4, <1>5, <1>9, <2>1 DEF Onward
    <2>3. /\ IsFetch => t \in {1, 2, 3}
          /\ ~IsFetch => t = 1
      BY <1>4, <1>7, <1>9 DEF WithinCycle
    <2> QED  BY <1>1, <1>9, <2>1, <2>2, <2>3 DEF Places
  <1>10. CASE /\ NextCycle
              /\ t' = 1 /\ cycle' = cycle + 1 /\ insn' = insn
    <2>1. Onward
      BY <1>8, <1>10
    <2>2. /\ IsFetch' <=> cycle + 1 <= Fetches
          /\ IsOperand' <=> Fetches < cycle + 1 /\ cycle + 1 <= EncLen
      BY <1>1, <1>5, <1>10, <2>1 DEF Onward
    <2>3. /\ IsFetch => t = 4
          /\ ~IsFetch => t = 2
          /\ cycle < Cycles
      BY <1>7, <1>10 DEF NextCycle
    <2> QED  BY <1>1, <1>10, <2>1, <2>2, <2>3 DEF Places
  <1>11. CASE /\ NextInsn
              /\ t' = 1 /\ cycle' = 1
              /\ ShapeOf(insn) \in Wasted => insn'.fetch[1] \in {"dd", "ed"}
    <2>1. Wellformed(insn)'
      BY <1>1 DEF CpuOK
    <2>2. IsFetch' /\ ~IsOperand'
      BY <1>1, <1>5, <1>6, <1>11, <2>1
    <2>3. /\ IsFetch => t = 4
          /\ ~IsFetch => t = 2
          /\ cycle = Cycles
      BY <1>7, <1>11 DEF NextInsn
    <2>4. IsFetch => Fetches = Cycles
      BY <1>3, <1>4, <2>3
    <2> QED  BY <1>1, <1>11, <2>2, <2>3, <2>4 DEF Places
  <1> QED  BY <1>9, <1>10, <1>11, CpuMoves

-----------------------------------------------------------------------------
(* The inductive invariant. *)

TraceSet == [startAddr : Nat, bytes : Seq(Byte), m1Type : Kinds, hc : Nat, nextPc : Nat]
TrackSet == [held : BOOLEAN, addr : Nat, kind : Kinds, lead : Seq(Byte), skip : Nat,
             extra : Seq(Byte), ack : BOOLEAN]

Types ==
  /\ curr \in TraceSet /\ Len(curr.bytes) <= 4
  /\ prev \in TraceSet /\ Len(prev.bytes) <= 4
  /\ enabled \in BOOLEAN /\ inOpRd \in BOOLEAN /\ multicycle \in BOOLEAN
  /\ track \in TrackSet /\ stray \in BOOLEAN /\ continues \in BOOLEAN /\ edges \in Nat

(* A fetch that has not shown its byte. *)
Ahead == IsFetch /\ t <= 3

(* Where in the instruction a trace may have been begun: at its first      *)
(* fetch, at its second, or at the acknowledge cycle before it, which a    *)
(* second fetch does not outlast.                                          *)
Begins ==
  IF cycle = 1 /\ Ahead
    THEN track.lead # <<>> /\ track.skip = 0
    ELSE \/ track.lead = <<>> /\ track.skip = 0
         \/ track.lead = <<>> /\ track.skip = 1 /\ Fetches = 2 /\ cycle > 1 /\ (cycle = 2 => t = 4)
         \/ /\ Len(track.lead) = 1 /\ track.skip = 0
            /\ Fetches = 2 => cycle = 1 \/ (cycle = 2 /\ t <= 3)

(* A stray operand is taken by the first read, and there is one only where *)
(* that is a read of data.                                                 *)
Extra ==
  /\ stray => cycle <= Fetches + 1
  /\ track.extra # <<>> => ~stray /\ cycle > Fetches + 1 /\ EncLen = Fetches

(* The trace holds what the bus has shown since it was begun. *)
Part(n) == track.lead \o SubSeq(Encoding(insn), track.skip + 1, n)

Holds ==
  /\ curr.bytes = Part(Shown) \o track.extra
  /\ curr.startAddr = track.addr /\ curr.m1Type = track.kind /\ curr.hc = edges
  /\ Ahead /\ t # 1 => curr.nextPc = PcOfFetch

(* A lone prefix is that of an instruction in the middle of its fetches,   *)
(* that of an acknowledge cycle, or one that is overridden.                *)
Lone(s) == Len(s) = 1 /\ s[1] \in Prefix

Alone ==
  /\ ~IsFetch \/ (Ahead /\ cycle = 2) => multicycle
  /\ Ahead /\ cycle = 1 =>
       /\ track.ack => multicycle
       /\ multicycle /\ ~track.ack /\ Lone(track.lead) =>
            track.lead[1] = "dd" /\ insn.fetch[1] \in {"dd", "ed"}

(* A trace that was gone on with holds more than one byte. *)
Joined ==
  /\ Ahead => (continues <=> Belongs)
  /\ ~Ahead /\ continues =>
       track.lead # <<>> \/ (Fetches = 2 /\ cycle > 1 /\ track.skip = 0)

Held    == track.held => Begins /\ Extra /\ Holds /\ Alone /\ Joined
NotHeld == ~track.held => curr.bytes = <<>>

Operand == inOpRd <=> (IsOperand /\ t = 2 /\ track.held) \/ stray

HoldsReport ==
  IF IsFetch /\ t = 4 /\ due # Empty THEN prev = due /\ due.bytes # <<>>
                                     ELSE prev.bytes = <<>> /\ due = Empty

Watched ==
  IF enabled THEN Held /\ NotHeld /\ Operand /\ HoldsReport
             ELSE ~track.held /\ track = NoTrack /\ due = Empty /\ stray = FALSE

IInv == CpuOK /\ Types /\ Watched

-----------------------------------------------------------------------------
(* What the hooks do to the buffers. *)

LEMMA TickedFields ==
  ASSUME NEW x \in TraceSet
  PROVE  /\ Ticked(x) \in TraceSet
         /\ Ticked(x).bytes = x.bytes /\ Ticked(x).startAddr = x.startAddr
         /\ Ticked(x).m1Type = x.m1Type /\ Ticked(x).nextPc = x.nextPc
         /\ Ticked(x).hc = x.hc + 1
  BY DEF Ticked, TraceSet

LEMMA AppendFields ==
  ASSUME NEW x \in TraceSet, NEW b \in Byte, NEW y, y = [x EXCEPT !.bytes = Append(@, b)]
  PROVE  /\ y \in TraceSet
         /\ y.bytes = Append(x.bytes, b) /\ Len(y.bytes) = Len(x.bytes) + 1
         /\ y.startAddr = x.startAddr /\ y.m1Type = x.m1Type /\ y.hc = x.hc
  <1>1. x.bytes \in Seq(Byte)
    BY DEF TraceSet
  <1>2. Append(x.bytes, b) \in Seq(Byte) /\ Len(Append(x.bytes, b)) = Len(x.bytes) + 1
    BY <1>1
  <1>3. y = [x EXCEPT !.bytes = Append(x.bytes, b)]
    OBVIOUS
  <1> QED  BY <1>2, <1>3 DEF TraceSet

LEMMA NextPcFields ==
  ASSUME NEW x \in TraceSet, NEW a \in Nat, NEW y, y = [x EXCEPT !.nextPc = a]
  PROVE  /\ y \in TraceSet
         /\ y.bytes = x.bytes /\ y.startAddr = x.startAddr /\ y.m1Type = x.m1Type
         /\ y.hc = x.hc /\ y.nextPc = a
  BY DEF TraceSet

LEMMA EmptyFields ==
  /\ Empty \in TraceSet /\ Empty.bytes = <<>> /\ Len(Empty.bytes) = 0
  BY DEF Empty, TraceSet, Kinds

LEMMA BegunFields ==
  ASSUME CpuOK
  PROVE  /\ Begun \in TraceSet
         /\ Begun.startAddr = PcOfFetch /\ Begun.bytes = <<BusByte>>
         /\ Begun.m1Type = insn.kind /\ Begun.hc = 0 /\ Begun.nextPc = PcOfFetch
  <1>1. Wellformed(insn) /\ insn.addr \in Nat /\ cycle \in 1 .. Cycles
    BY DEF CpuOK
  <1>2. BusByte \in Byte /\ insn.kind \in Kinds /\ Cycles \in Nat
    BY <1>1, Sizes DEF Wellformed
  <1>3. PcOfFetch \in Nat
    BY <1>1, <1>2 DEF PcOfFetch
  <1>4. <<BusByte>> \in Seq(Byte)
    BY <1>2
  <1> QED  BY <1>2, <1>3, <1>4 DEF Begun, TraceSet

(* curr goes on as it is, with one byte more, or as a new trace.           *)
TracerOK ==
  /\ curr \in TraceSet /\ Len(curr.bytes) <= 4
  /\ prev \in TraceSet /\ Len(prev.bytes) <= 4
  /\ inOpRd \in BOOLEAN /\ multicycle \in BOOLEAN

GoesOn ==
  /\ curr'.startAddr = curr.startAddr /\ curr'.m1Type = curr.m1Type /\ curr'.hc = curr.hc + 1

Same   == GoesOn /\ curr'.bytes = curr.bytes
Longer == /\ GoesOn /\ curr'.bytes = Append(curr.bytes, BusByte)
          /\ Len(curr'.bytes) = Len(curr.bytes) + 1
Fresh  == /\ curr'.startAddr = PcOfFetch /\ curr'.bytes = <<BusByte>>
          /\ curr'.m1Type = insn.kind /\ curr'.hc = 1

LEMMA Hooks ==
  ASSUME CpuOK, TracerOK, Trace
  PROVE  /\ TracerOK'
         /\ IsFetch /\ t = 1 =>
              Same /\ curr'.nextPc = PcOfFetch /\ UNCHANGED <<prev, inOpRd, multicycle>>
         /\ IsFetch /\ t = 2 =>
              Same /\ curr'.nextPc = curr.nextPc /\ UNCHANGED <<prev, inOpRd, multicycle>>
         /\ IsFetch /\ t = 3 /\ ContinuesChain => Longer /\ UNCHANGED <<prev, inOpRd, multicycle>>
         /\ IsFetch /\ t = 3 /\ ~ContinuesChain =>
              Fresh /\ prev' = curr /\ UNCHANGED <<inOpRd, multicycle>>
         /\ IsFetch /\ t = 4 =>
              Same /\ prev'.bytes = <<>> /\ multicycle' = HasMoreMCycles /\ inOpRd' = inOpRd
         /\ IsOperand /\ t = 1 => Same /\ inOpRd' /\ UNCHANGED <<prev, multicycle>>
         /\ ~IsFetch /\ ~IsOperand /\ t = 1 => Same /\ UNCHANGED <<prev, inOpRd, multicycle>>
         /\ ~IsFetch /\ t = 2 /\ Captures => Longer /\ ~inOpRd' /\ UNCHANGED <<prev, multicycle>>
         /\ ~IsFetch /\ t = 2 /\ ~Captures => Same /\ UNCHANGED <<prev, inOpRd, multicycle>>
  <1>1. /\ curr \in TraceSet /\ prev \in TraceSet /\ Len(curr.bytes) <= 4 /\ Len(prev.bytes) <= 4
        /\ inOpRd \in BOOLEAN /\ multicycle \in BOOLEAN
    BY DEF TracerOK
  <1>2. /\ Wellformed(insn) /\ insn.addr \in Nat /\ cycle \in 1 .. Cycles
    BY DEF CpuOK
  <1>3. BusByte \in Byte /\ Cycles \in Nat
    BY <1>2, Sizes
  <1>4. PcOfFetch \in Nat
    BY <1>2, <1>3 DEF PcOfFetch
  <1> HIDE DEF TraceSet, Same, Longer, Fresh
  <1>5. ASSUME NEW x \in TraceSet, curr' = Ticked(x), x.bytes = curr.bytes, x.startAddr = curr.startAddr,
               x.m1Type = curr.m1Type, x.hc = curr.hc
        PROVE  Same /\ curr' \in TraceSet /\ Len(curr'.bytes) <= 4 /\ curr'.nextPc = x.nextPc
    BY <1>1, <1>5, TickedFields DEF Same, GoesOn
  <1>6. ASSUME curr' = Ticked([curr EXCEPT !.bytes = Append(@, BusByte)]), Len(curr.bytes) <= 3
        PROVE  Longer /\ curr' \in TraceSet /\ Len(curr'.bytes) <= 4
    <2> DEFINE y == [curr EXCEPT !.bytes = Append(@, BusByte)]
    <2>1. /\ y \in TraceSet /\ y.bytes = Append(curr.bytes, BusByte)
          /\ Len(y.bytes) = Len(curr.bytes) + 1
          /\ y.startAddr = curr.startAddr /\ y.m1Type = curr.m1Type /\ y.hc = curr.hc
      BY <1>1, <1>3, AppendFields
    <2>2. curr' = Ticked(y)
      BY <1>6
    <2> HIDE DEF y
    <2>3. /\ curr' \in TraceSet /\ curr'.bytes = y.bytes /\ curr'.startAddr = y.startAddr
          /\ curr'.m1Type = y.m1Type /\ curr'.hc = y.hc + 1
      BY <2>1, <2>2, TickedFields
    <2>4. curr.bytes \in Seq(Byte)
      BY <1>1 DEF TraceSet
    <2>5. Len(curr'.bytes) = Len(curr.bytes) + 1 /\ Len(curr'.bytes) <= 4
      BY <1>6, <2>1, <2>3, <2>4
    <2> QED  BY <2>1, <2>3, <2>5 DEF Longer, GoesOn
  <1>7. CASE IsFetch /\ t = 1
    <2>1. NoteNextPc
      BY <1>7, Steps DEF Trace, NoteNextPc, Extend, InitFreshCurr, ArmOperand, TakeOperand, Complete, Ignore
    <2>2. PICK y : y = [curr EXCEPT !.nextPc = PcOfFetch]
      OBVIOUS
    <2>3. curr' = Ticked(y) /\ UNCHANGED <<prev, inOpRd, multicycle>>
      BY <2>1, <2>2 DEF NoteNextPc
    <2>4. /\ y \in TraceSet /\ y.bytes = curr.bytes /\ y.startAddr = curr.startAddr
          /\ y.m1Type = curr.m1Type /\ y.hc = curr.hc /\ y.nextPc = PcOfFetch
      BY <1>1, <1>4, <2>2, NextPcFields
    <2>5. Same /\ curr' \in TraceSet /\ Len(curr'.bytes) <= 4 /\ curr'.nextPc = PcOfFetch
      BY <1>5, <2>3, <2>4
    <2> QED  BY <1>1, <1>7, <2>3, <2>5, Steps DEF TracerOK
  <1>8. CASE (IsFetch /\ t = 2) \/ (~IsFetch /\ ~IsOperand /\ t = 1)
    <2>1. Ignore
      BY <1>8, Steps DEF Trace, NoteNextPc, Extend, InitFreshCurr, ArmOperand, TakeOperand, Complete, Ignore
    <2>2. curr' = Ticked(curr) /\ UNCHANGED <<prev, inOpRd, multicycle>>
      BY <2>1 DEF Ignore
    <2>3. Same /\ curr' \in TraceSet /\ Len(curr'.bytes) <= 4 /\ curr'.nextPc = curr.nextPc
      BY <1>1, <1>5, <2>2
    <2> QED  BY <1>1, <1>8, <2>2, <2>3, Steps DEF TracerOK
  <1>9. CASE IsFetch /\ t = 3 /\ ContinuesChain
    <2>1. Extend
      BY <1>9, Steps DEF Trace, NoteNextPc, Extend, InitFreshCurr, ArmOperand, TakeOperand, Complete, Ignore
    <2>2. /\ curr' = Ticked([curr EXCEPT !.bytes = Append(@, BusByte)])
          /\ UNCHANGED <<prev, inOpRd, multicycle>>
      BY <2>1 DEF Extend
    <2>3. Len(curr.bytes) <= 3
      BY <1>9 DEF ContinuesChain
    <2>4. Longer /\ curr' \in TraceSet /\ Len(curr'.bytes) <= 4
      BY <1>6, <2>2, <2>3
    <2> QED  BY <1>1, <1>9, <2>2, <2>4, Steps DEF TracerOK
  <1>10. CASE IsFetch /\ t = 3 /\ ~ContinuesChain
    <2>1. InitFreshCurr
      BY <1>10, Steps DEF Trace, NoteNextPc, Extend, InitFreshCurr, ArmOperand, TakeOperand, Complete, Ignore
    <2>2. curr' = Ticked(Begun) /\ prev' = curr /\ UNCHANGED <<inOpRd, multicycle>>
      BY <2>1 DEF InitFreshCurr
    <2>3. /\ Begun \in TraceSet
          /\ Begun.startAddr = PcOfFetch /\ Begun.bytes = <<BusByte>>
          /\ Begun.m1Type = insn.kind /\ Begun.hc = 0
      BY BegunFields
    <2>4. /\ curr' \in TraceSet /\ curr'.startAddr = PcOfFetch /\ curr'.bytes = <<BusByte>>
          /\ curr'.m1Type = insn.kind /\ curr'.hc = 1
      BY <2>2, <2>3, TickedFields
    <2>5. Len(curr'.bytes) <= 4
      BY <2>4
    <2> QED  BY <1>1, <1>10, <2>2, <2>4, <2>5, Steps DEF TracerOK, Fresh
  <1>11. CASE IsFetch /\ t = 4
    <2>1. Complete
      BY <1>11, Steps DEF Trace, NoteNextPc, Extend, InitFreshCurr, ArmOperand, TakeOperand, Complete, Ignore
    <2>2. curr' = Ticked(curr) /\ prev' = Empty /\ multicycle' = HasMoreMCycles /\ inOpRd' = inOpRd
      BY <2>1 DEF Complete
    <2>3. Same /\ curr' \in TraceSet /\ Len(curr'.bytes) <= 4
      BY <1>1, <1>5, <2>2
    <2>4. prev' \in TraceSet /\ prev'.bytes = <<>>
      BY <2>2, EmptyFields
    <2>5. Len(prev'.bytes) <= 4
      BY <2>4
    <2>6. HasMoreMCycles \in BOOLEAN
      BY <1>2 DEF HasMoreMCycles, Wellformed
    <2> QED  BY <1>1, <1>11, <2>2, <2>3, <2>4, <2>5, <2>6, Steps DEF TracerOK
  <1>12. CASE IsOperand /\ t = 1
    <2>1. ArmOperand
      BY <1>12, Steps DEF Trace, NoteNextPc, Extend, InitFreshCurr, ArmOperand, TakeOperand, Complete, Ignore
    <2>2. curr' = Ticked(curr) /\ inOpRd' = TRUE /\ UNCHANGED <<prev, multicycle>>
      BY <2>1 DEF ArmOperand
    <2>3. Same /\ curr' \in TraceSet /\ Len(curr'.bytes) <= 4
      BY <1>1, <1>5, <2>2
    <2> QED  BY <1>1, <1>12, <2>2, <2>3, Steps DEF TracerOK
  <1>13. CASE ~IsFetch /\ t = 2
    <2>1. TakeOperand
      BY <1>13, Steps DEF Trace, NoteNextPc, Extend, InitFreshCurr, ArmOperand, TakeOperand, Complete, Ignore
    <2>2. UNCHANGED <<prev, multicycle>>
      BY <2>1 DEF TakeOperand
    <2>3. CASE Captures
      <3>1. curr' = Ticked([curr EXCEPT !.bytes = Append(@, BusByte)]) /\ inOpRd' = FALSE
        BY <2>1, <2>3 DEF TakeOperand
      <3>2. Len(curr.bytes) \in 1 .. 3
        BY <2>3, Zenon DEF Captures
      <3>4. Len(curr.bytes) <= 3
        <4>1. \A n \in 1 .. 3 : n <= 3
          OBVIOUS
        <4> QED  BY <3>2, <4>1, Zenon
      <3>3. Longer /\ curr' \in TraceSet /\ Len(curr'.bytes) <= 4
        BY <1>6, <3>1, <3>4
      <3> QED  BY <1>1, <1>13, <2>2, <2>3, <3>1, <3>3, Steps DEF TracerOK
    <2>4. CASE ~Captures
      <3>1. curr' = Ticked(curr) /\ inOpRd' = inOpRd
        BY <2>1, <2>4 DEF TakeOperand
      <3>2. Same /\ curr' \in TraceSet /\ Len(curr'.bytes) <= 4
        BY <1>1, <1>5, <3>1
      <3> QED  BY <1>1, <1>13, <2>2, <2>4, <3>1, <3>2, Steps DEF TracerOK
    <2> QED  BY <2>3, <2>4
  <1> QED  BY <1>7, <1>8, <1>9, <1>10, <1>11, <1>12, <1>13, Steps

-----------------------------------------------------------------------------
(* What a trace holds. *)

LEMMA Grown ==
  ASSUME NEW a \in Seq(Byte), NEW e \in Seq(Byte), NEW s \in Nat, NEW n \in Nat,
         s <= n, n < Len(e)
  PROVE  a \o SubSeq(e, s + 1, n + 1) = Append(a \o SubSeq(e, s + 1, n), e[n + 1])
  <1> DEFINE m == s + 1
             k == n + 1
             x == SubSeq(e, m, k - 1)
  <1>1. m \in 1 .. Len(e) /\ k \in m .. Len(e) /\ k - 1 = n /\ k \in 1 .. Len(e)
    OBVIOUS
  <1>2. SubSeq(e, m, k) = x \o <<e[k]>>
    BY <1>1, SubSeqRecursiveSecond
  <1>3. e[k] \in Byte /\ <<e[k]>> \in Seq(Byte)
    BY <1>1
  <1>4. x \in Seq(Byte)
    <2>1. \A i \in m .. k - 1 : e[i] \in Byte
      BY <1>1
    <2>2. m \in Int /\ k - 1 \in Int
      OBVIOUS
    <2> QED  BY <2>1, <2>2, SubSeqProperties
  <1> HIDE DEF x
  <1>5. a \o (x \o <<e[k]>>) = (a \o x) \o <<e[k]>>
    BY <1>3, <1>4, ConcatAssociative
  <1>6. a \o x \in Seq(Byte)
    BY <1>4, ConcatProperties
  <1>7. (a \o x) \o <<e[k]>> = Append(a \o x, e[k])
    BY <1>3, <1>6, AppendIsConcat
  <1>8. SubSeq(e, s + 1, n) = x
    BY <1>1 DEF x
  <1> QED  BY <1>2, <1>5, <1>7, <1>8

LEMMA Measured ==
  ASSUME NEW a \in Seq(Byte), NEW e \in Seq(Byte), NEW s \in Nat, NEW n \in Nat,
         s <= n, n <= Len(e), NEW y, y = a \o SubSeq(e, s + 1, n)
  PROVE  /\ y \in Seq(Byte) /\ Len(y) = Len(a) + n - s
         /\ \A i \in 1 .. Len(a) : y[i] = a[i]
         /\ s < n => y[Len(a) + 1] = e[s + 1]
         /\ s = n => y = a
  <1> DEFINE x == SubSeq(e, s + 1, n)
  <1>1. /\ x \in Seq(Byte)
        /\ Len(x) = IF s + 1 <= n THEN n - (s + 1) + 1 ELSE 0
        /\ \A i \in 1 .. n - (s + 1) + 1 : x[i] = e[s + 1 + i - 1]
    <2>1. \A i \in s + 1 .. n : e[i] \in Byte
      OBVIOUS
    <2>2. s + 1 \in Int /\ n \in Int
      OBVIOUS
    <2> QED  BY <2>1, <2>2, SubSeqProperties
  <1>2. Len(x) = n - s /\ (s < n => x[1] = e[s + 1])
    <2>1. ASSUME s < n PROVE x[1] = e[s + 1]
      <3>1. 1 \in 1 .. n - (s + 1) + 1
        BY <2>1
      <3>2. x[1] = e[s + 1 + 1 - 1]
        BY <1>1, <3>1
      <3>3. s + 1 + 1 - 1 = s + 1
        OBVIOUS
      <3> QED  BY <3>2, <3>3
    <2>2. Len(x) = n - s
      BY <1>1
    <2> QED  BY <2>1, <2>2
  <1>3. s = n => x = <<>>
    BY SubSeqEmpty
  <1>4. a \o <<>> = a
    BY ConcatEmptySeq
  <1> HIDE DEF x
  <1>5. /\ a \o x \in Seq(Byte) /\ Len(a \o x) = Len(a) + Len(x)
        /\ \A i \in 1 .. Len(a) + Len(x) :
             (a \o x)[i] = IF i <= Len(a) THEN a[i] ELSE x[i - Len(a)]
    BY <1>1, ConcatProperties
  <1>6. y = a \o x
    BY DEF x
  <1>7. Len(a) \in Nat
    OBVIOUS
  <1>8. ASSUME s < n PROVE y[Len(a) + 1] = e[s + 1]
    <2>1. Len(a) + 1 \in 1 .. Len(a) + Len(x) /\ ~(Len(a) + 1 <= Len(a)) /\ Len(a) + 1 - Len(a) = 1
      BY <1>2, <1>7, <1>8
    <2>2. (a \o x)[Len(a) + 1] = x[Len(a) + 1 - Len(a)]
      BY <1>5, <2>1
    <2> QED  BY <1>2, <1>6, <1>8, <2>1, <2>2
  <1>9. \A i \in 1 .. Len(a) : y[i] = a[i]
    BY <1>2, <1>5, <1>6, <1>7
  <1> QED  BY <1>2, <1>3, <1>4, <1>5, <1>6, <1>8, <1>9

(* The tracer is on and has seen the fetch that opened its trace.          *)
Tracing == CpuOK /\ Types /\ Watched /\ enabled /\ track.held

LEMMA TrackTypes ==
  ASSUME track \in TrackSet
  PROVE  /\ track.held \in BOOLEAN /\ track.addr \in Nat /\ track.kind \in Kinds
         /\ track.lead \in Seq(Byte) /\ track.skip \in Nat /\ track.extra \in Seq(Byte)
         /\ track.ack \in BOOLEAN /\ Len(track.lead) \in Nat
  BY DEF TrackSet

LEMMA InTrace ==
  ASSUME Tracing
  PROVE  /\ track.lead \in Seq(Byte) /\ track.extra \in Seq(Byte) /\ track.skip \in {0, 1}
         /\ Len(track.lead) \in Nat
         /\ Shown \in Nat /\ track.skip <= Shown /\ Shown <= EncLen
         /\ Part(Shown) \in Seq(Byte) /\ Len(Part(Shown)) = Len(track.lead) + Shown - track.skip
         /\ track.extra = <<>> => curr.bytes = Part(Shown)
         /\ curr.bytes # <<>> /\ curr.bytes \in Seq(Byte)
         /\ Len(track.lead) <= 1 \/ (cycle = 1 /\ Ahead)
  <1>1. /\ Wellformed(insn) /\ cycle \in 1 .. Cycles /\ t \in 1 .. StepsOfCycle
        /\ Begins /\ Holds
    BY DEF Tracing, CpuOK, Watched, Held
  <1>2. /\ Cycles \in Nat /\ Fetches \in {1, 2} /\ EncLen \in Fetches .. 4 /\ EncLen \in Nat
        /\ Encoding(insn) \in Seq(Byte) /\ EncLen = Len(Encoding(insn))
    BY <1>1, Sizes DEF EncLen
  <1>3. /\ track.lead \in Seq(Byte) /\ track.extra \in Seq(Byte) /\ track.skip \in Nat
        /\ Len(track.lead) \in Nat
    BY TrackTypes DEF Tracing, Types
  <1>4. /\ IsFetch => t \in {1, 2, 3, 4}
        /\ IsFetch <=> cycle <= Fetches
        /\ IsOperand <=> Fetches < cycle /\ cycle <= EncLen
    BY Steps DEF Tracing
  <1>5. track.skip \in {0, 1}
    BY <1>1 DEF Begins
  <1>6. Shown \in Nat /\ Shown <= EncLen
    BY <1>1, <1>2, <1>4 DEF Shown
  <1>7. /\ track.skip <= Shown
        /\ Len(track.lead) + Shown - track.skip > 0 \/ (cycle = 1 /\ Ahead)
        /\ Len(track.lead) <= 1 \/ (cycle = 1 /\ Ahead)
    <2>1. CASE cycle = 1 /\ Ahead
      BY <1>1, <1>6, <2>1 DEF Begins
    <2>2. CASE ~(cycle = 1 /\ Ahead)
      <3>0. Len(<<>>) = 0
        OBVIOUS
      <3>1. \/ Len(track.lead) = 0 /\ track.skip = 0
            \/ Len(track.lead) = 0 /\ track.skip = 1 /\ Fetches = 2 /\ cycle > 1 /\ (cycle = 2 => t = 4)
            \/ Len(track.lead) = 1 /\ track.skip = 0
        BY <1>1, <2>2, <3>0 DEF Begins
      <3>2. Shown >= 1
        BY <1>1, <1>2, <1>4, <2>2 DEF Shown, Ahead
      <3>3. cycle > 1 /\ Fetches = 2 /\ (cycle = 2 => t = 4) => Shown >= 2
        BY <1>1, <1>2, <1>4 DEF Shown
      <3>4. track.skip <= Shown /\ Len(track.lead) <= 1
        <4>1. CASE Len(track.lead) = 0 /\ track.skip = 0
          BY <1>6, <4>1
        <4>2. CASE Len(track.lead) = 1 /\ track.skip = 0
          BY <1>6, <4>2
        <4>3. CASE /\ Len(track.lead) = 0 /\ track.skip = 1 /\ Fetches = 2 /\ cycle > 1
                   /\ cycle = 2 => t = 4
          BY <1>6, <3>2, <4>3
        <4> QED  BY <3>1, <4>1, <4>2, <4>3
      <3>5. ASSUME NEW n \in Nat, NEW k \in Nat, NEW m \in Nat, m >= 1, k = 1 => m >= 2,
                   (n = 0 /\ k = 0) \/ (n = 0 /\ k = 1) \/ (n = 1 /\ k = 0)
            PROVE  n + m - k > 0
        BY <3>5
      <3>6. track.skip = 1 => Shown >= 2
        BY <3>1, <3>3
      <3>7. Len(track.lead) + Shown - track.skip > 0
        BY <1>3, <1>6, <3>1, <3>2, <3>5, <3>6
      <3> QED  BY <3>4, <3>7
    <2> QED  BY <2>1, <2>2
  <1>8. /\ Part(Shown) \in Seq(Byte) /\ Len(Part(Shown)) = Len(track.lead) + Shown - track.skip
    BY <1>2, <1>3, <1>5, <1>6, <1>7, Measured DEF Part
  <1>9. track.extra = <<>> => curr.bytes = Part(Shown)
    <2>1. Part(Shown) \o <<>> = Part(Shown)
      BY <1>8, ConcatEmptySeq
    <2> QED  BY <1>1, <2>1 DEF Holds
  <1>10. curr.bytes = Part(Shown) \o track.extra
    BY <1>1 DEF Holds
  <1>11. Len(Part(Shown)) > 0
    <2>1. CASE cycle = 1 /\ Ahead
      <3>1. track.lead # <<>>
        BY <1>1, <2>1 DEF Begins
      <3>2. Len(track.lead) > 0 /\ track.skip = 0
        BY <1>1, <1>3, <2>1, <3>1, EmptySeq DEF Begins
      <3> QED  BY <1>3, <1>6, <1>8, <3>2
    <2>2. CASE ~(cycle = 1 /\ Ahead)
      BY <1>7, <1>8, <2>2
    <2> QED  BY <2>1, <2>2
  <1>12. curr.bytes \in Seq(Byte) /\ Len(curr.bytes) = Len(Part(Shown)) + Len(track.extra)
    BY <1>3, <1>8, <1>10, ConcatProperties
  <1>13. curr.bytes # <<>>
    <2>1. Len(track.extra) \in Nat /\ Len(Part(Shown)) \in Nat
      BY <1>3, <1>8
    <2>2. Len(curr.bytes) # 0
      BY <1>11, <1>12, <2>1
    <2> QED  BY <2>2
  <1> QED  BY <1>3, <1>5, <1>6, <1>7, <1>8, <1>9, <1>12, <1>13

(* A fetch goes on with the trace exactly when it belongs to it.           *)
LEMMA Continuing ==
  ASSUME CpuOK, Types, Watched, enabled, IsFetch, t = 3
  PROVE  /\ ContinuesChain <=> Belongs
         /\ BusByte = insn.fetch[cycle] /\ BusByte = Encoding(insn)[cycle] /\ cycle \in {1, 2}
         /\ cycle = 2 => Fetches = 2
  <1>1. Wellformed(insn) /\ cycle \in 1 .. Cycles
    BY DEF CpuOK
  <1>2. /\ Fetches \in {1, 2} /\ Cycles \in Nat /\ EncLen \in Fetches .. 4
        /\ \A k \in 1 .. Fetches : Encoding(insn)[k] = insn.fetch[k]
        /\ cycle \in 1 .. EncLen => BusByte = Encoding(insn)[cycle]
        /\ Encoding(insn) \in Seq(Byte)
    BY <1>1, Sizes
  <1>3. cycle <= Fetches /\ cycle \in Nat /\ cycle >= 1
    BY <1>1, <1>2 DEF IsFetch
  <1>4. cycle \in 1 .. Fetches /\ cycle \in 1 .. EncLen /\ cycle \in {1, 2}
    BY <1>2, <1>3
  <1>5. BusByte = insn.fetch[cycle] /\ BusByte = Encoding(insn)[cycle]
    BY <1>2, <1>4, Zenon
  <1>6. cycle = 2 => Fetches = 2
    BY <1>2, <1>3
  <1>7. CASE ~track.held
    <2>1. curr.bytes = <<>>
      BY <1>7 DEF Watched, NotHeld
    <2>2. Len(curr.bytes) # 1
      BY <2>1
    <2> QED  BY <1>4, <1>5, <1>6, <1>7, <2>2 DEF ContinuesChain, Belongs
  <1>8. ASSUME track.held PROVE ContinuesChain <=> Belongs
    <2>1. Tracing /\ Begins /\ Extra /\ Alone /\ Ahead
      BY <1>8 DEF Tracing, Watched, Held, Ahead
    <2>2. ~(cycle > Fetches + 1)
      BY <1>2, <1>3
    <2>3. track.extra = <<>>
      BY <2>1, <2>2 DEF Extra
    <2>4. /\ curr.bytes = Part(Shown) /\ Shown = cycle - 1
          /\ track.lead \in Seq(Byte) /\ track.skip \in {0, 1} /\ Len(track.lead) \in Nat
      BY <2>1, <2>3, InTrace DEF Shown, Ahead
    <2>5. CASE cycle = 1
      <3>1. Shown = 0 /\ track.skip = 0
        BY <2>1, <2>4, <2>5 DEF Begins
      <3>2. curr.bytes = track.lead
        <4>1. Part(0) = track.lead
          BY <1>2, <2>4, <3>1, Measured DEF Part, EncLen
        <4> QED  BY <2>4, <3>1, <4>1
      <3>3. Overrides <=> track.lead[1] = "dd" /\ insn.fetch[1] \in {"dd", "ed"}
        BY <1>5, <2>5, <3>2 DEF Overrides
      <3>4. ContinuesChain <=>
              /\ ~Acknowledges(insn) /\ multicycle /\ Lone(track.lead)
              /\ ~(track.lead[1] = "dd" /\ insn.fetch[1] \in {"dd", "ed"})
        BY <3>2, <3>3, Zenon DEF ContinuesChain, Acknowledges, Lone
      <3>5. Belongs <=>
              /\ track.ack /\ Lone(track.lead) /\ ~Acknowledges(insn)
              /\ ~(track.lead[1] = "dd" /\ insn.fetch[1] \in {"dd", "ed"})
        <4>1. cycle # 2
          BY <2>5
        <4> QED  BY <1>8, <4>1, Zenon DEF Belongs, Lone
      <3>6. /\ track.ack => multicycle
            /\ multicycle /\ ~track.ack /\ Lone(track.lead) =>
                 track.lead[1] = "dd" /\ insn.fetch[1] \in {"dd", "ed"}
        BY <2>1, <2>5 DEF Alone
      <3> QED  BY <3>4, <3>5, <3>6, Zenon
    <2>6. CASE cycle = 2 /\ track.lead = <<>>
      <3>1. track.skip = 0 /\ multicycle
        BY <2>1, <2>6 DEF Begins, Alone, Ahead
      <3>2. Belongs
        BY <1>8, <2>6, <3>1 DEF Belongs
      <3>3. 0 \in Nat /\ 1 \in Nat /\ 0 <= 1 /\ 1 <= Len(Encoding(insn)) /\ 0 < 1 /\ Len(<<>>) = 0
        BY <1>2 DEF EncLen
      <3>4. Len(Part(1)) = 1 /\ Part(1)[1] = Encoding(insn)[1]
        <4>1. /\ Len(Part(1)) = Len(track.lead) + 1 - 0
              /\ Part(1)[Len(track.lead) + 1] = Encoding(insn)[0 + 1]
          BY <1>2, <2>4, <3>1, <3>3, Measured DEF Part
        <4> QED  BY <2>6, <3>3, <4>1
      <3>5. Shown = 1 /\ Fetches = 2
        BY <1>6, <2>4, <2>6
      <3>6. Len(curr.bytes) = 1 /\ curr.bytes[1] = insn.fetch[1]
        <4>1. Encoding(insn)[1] = insn.fetch[1]
          BY <1>2, <3>5
        <4> QED  BY <2>4, <3>4, <3>5, <4>1
      <3>7. /\ insn.kind = "normal" /\ insn.fetch[1] \in Prefix /\ insn.fetch[2] # "ed"
            /\ insn.fetch[2] = "dd" => insn.fetch[1] # "dd"
        BY <1>1, <3>5 DEF Wellformed, Fetches
      <3>8. ~Overrides
        BY <1>5, <2>6, <3>6, <3>7 DEF Overrides
      <3>9. ContinuesChain
        BY <3>1, <3>6, <3>7, <3>8 DEF ContinuesChain
      <3> QED  BY <3>2, <3>9
    <2>7. CASE cycle = 2 /\ track.lead # <<>>
      <3>1. Len(track.lead) = 1 /\ track.skip = 0
        BY <2>1, <2>7 DEF Begins
      <3>2. Len(Part(Shown)) = Len(track.lead) + Shown - track.skip
        BY <2>1, InTrace
      <3>3. Len(curr.bytes) # 1
        BY <2>4, <2>7, <3>1, <3>2
      <3> QED  BY <2>7, <3>3 DEF ContinuesChain, Belongs
    <2> QED  BY <1>4, <2>5, <2>6, <2>7
  <1> QED  BY <1>4, <1>5, <1>6, <1>7, <1>8

(* A read goes into the trace if it is an operand's, or follows one that   *)
(* was announced when there was no trace.                                  *)
LEMMA Capturing ==
  ASSUME CpuOK, Types, Watched, enabled, ~IsFetch, t = 2
  PROVE  /\ Captures <=> track.held /\ (IsOperand \/ stray)
         /\ track.held /\ (IsOperand \/ stray) => track.extra = <<>> /\ curr.bytes = Part(Shown)
         /\ track.held /\ stray /\ ~IsOperand => cycle = Fetches + 1 /\ EncLen = Fetches
  <1>1. Wellformed(insn) /\ cycle \in 1 .. Cycles
    BY DEF CpuOK
  <1>2. /\ Fetches \in {1, 2} /\ Cycles \in Nat /\ EncLen \in Fetches .. 4 /\ EncLen \in Nat
        /\ EncLen = Fetches + Len(insn.operands) /\ Len(insn.operands) \in Nat
        /\ Len(insn.operands) <= 2
    BY <1>1, Sizes DEF Wellformed
  <1>3. /\ cycle > Fetches /\ cycle \in Nat
        /\ IsOperand <=> Fetches < cycle /\ cycle <= EncLen
    BY <1>1, <1>2, Steps DEF IsFetch
  <1>4. inOpRd <=> (IsOperand /\ track.held) \/ stray
    BY DEF Watched, Operand
  <1>5. CASE ~track.held
    <2>1. curr.bytes = <<>>
      BY <1>5 DEF Watched, NotHeld
    <2>2. Len(curr.bytes) \notin 1 .. 3
      BY <2>1
    <2> QED  BY <1>5, <2>2, Zenon DEF Captures
  <1>6. CASE track.held /\ ~IsOperand /\ ~stray
    BY <1>4, <1>6, Zenon DEF Captures
  <1>7. ASSUME track.held, IsOperand \/ stray
        PROVE  /\ Captures /\ track.extra = <<>> /\ curr.bytes = Part(Shown)
               /\ stray /\ ~IsOperand => cycle = Fetches + 1 /\ EncLen = Fetches
    <2>1. Tracing /\ Begins /\ Extra
      BY <1>7 DEF Tracing, Watched, Held
    <2>2. stray /\ ~IsOperand => cycle = Fetches + 1 /\ EncLen = Fetches
      BY <1>2, <1>3, <2>1 DEF Extra
    <2>3. track.extra = <<>>
      BY <1>2, <1>3, <1>7, <2>1 DEF Extra
    <2>4. /\ curr.bytes = Part(Shown) /\ Len(track.lead) \in Nat
          /\ Len(Part(Shown)) = Len(track.lead) + Shown - track.skip /\ Shown \in Nat
      BY <2>1, <2>3, InTrace
    <2>5. Shown = IF IsOperand THEN cycle - 1 ELSE EncLen
      BY DEF Shown
    <2>6. Len(<<>>) = 0
      OBVIOUS
    <2>7. cycle # 1
      BY <1>2, <1>3
    <2>8. /\ \/ Len(track.lead) = 0 /\ track.skip = 0
             \/ Len(track.lead) = 0 /\ track.skip = 1 /\ Fetches = 2
             \/ Len(track.lead) = 1 /\ track.skip = 0 /\ (Fetches = 2 => cycle = 2)
      BY <2>1, <2>6, <2>7 DEF Begins
    <2>9. Shown >= Fetches /\ Shown <= 3 /\ (Fetches = 1 => Shown <= 2)
      <3>1. CASE IsOperand
        BY <1>2, <1>3, <2>5, <3>1
      <3>2. CASE ~IsOperand
        BY <1>2, <1>7, <2>2, <2>5, <3>2
      <3> QED  BY <3>1, <3>2
    <2>10. Len(Part(Shown)) \in 1 .. 3
      <3>1. CASE Len(track.lead) = 0 /\ track.skip = 0
        BY <1>2, <2>4, <2>9, <3>1
      <3>2. CASE Len(track.lead) = 0 /\ track.skip = 1 /\ Fetches = 2
        BY <1>2, <2>4, <2>9, <3>2
      <3>3. CASE Len(track.lead) = 1 /\ track.skip = 0 /\ (Fetches = 2 => cycle = 2)
        <4>1. Fetches = 1
          BY <1>2, <1>3, <3>3
        <4> QED  BY <2>4, <2>9, <3>3, <4>1
      <3> QED  BY <2>8, <3>1, <3>2, <3>3
    <2>11. Captures
      BY <1>4, <1>7, <2>4, <2>10, Zenon DEF Captures
    <2> QED  BY <2>2, <2>3, <2>4, <2>11
  <1> QED  BY <1>5, <1>6, <1>7

-----------------------------------------------------------------------------
(* What the history notes. *)

LEMMA NoTrackFields ==
  /\ NoTrack \in TrackSet
  /\ NoTrack.held = FALSE
  <1>1. PICK e : e = <<>> /\ e \in Seq(Byte)
    <2>1. <<>> \in Seq(Byte)
      OBVIOUS
    <2> QED  BY <2>1, Zenon
  <1>2. NoTrack = [held |-> FALSE, addr |-> 0, kind |-> "normal", lead |-> e, skip |-> 0,
                   extra |-> e, ack |-> FALSE]
    BY <1>1, Zenon DEF NoTrack
  <1>3. NoTrack \in TrackSet
    BY <1>1, <1>2 DEF TrackSet, Kinds
  <1>4. NoTrack.held = FALSE
    BY <1>2, Zenon
  <1> QED  BY <1>3, <1>4

LEMMA OpenedFields ==
  ASSUME CpuOK
  PROVE  /\ Opened \in TrackSet /\ Opened.held = TRUE
         /\ Opened.addr = PcOfFetch /\ Opened.kind = insn.kind
         /\ Opened.lead = <<>> /\ Opened.skip = cycle - 1 /\ Opened.extra = <<>>
  <1>1. Wellformed(insn) /\ insn.addr \in Nat /\ cycle \in 1 .. Cycles
    BY DEF CpuOK
  <1>2. insn.kind \in Kinds /\ Cycles \in Nat
    BY <1>1, Sizes DEF Wellformed
  <1>3. PcOfFetch \in Nat /\ cycle - 1 \in Nat
    BY <1>1, <1>2 DEF PcOfFetch
  <1>4. PICK e : e = <<>> /\ e \in Seq(Byte)
    <2>1. <<>> \in Seq(Byte)
      OBVIOUS
    <2> QED  BY <2>1, Zenon
  <1>5. PICK x : x = NoTrack
    OBVIOUS
  <1>6. x = [held |-> FALSE, addr |-> 0, kind |-> "normal", lead |-> e, skip |-> 0,
             extra |-> e, ack |-> FALSE]
    BY <1>4, <1>5, Zenon DEF NoTrack
  <1>7. x \in TrackSet /\ x.lead = e /\ x.extra = e
    BY <1>4, <1>6 DEF TrackSet, Kinds
  <1>8. Opened = [x EXCEPT !.held = TRUE, !.addr = PcOfFetch, !.kind = insn.kind,
                           !.skip = cycle - 1]
    BY <1>5 DEF Opened
  <1>9. /\ Opened \in TrackSet
        /\ Opened.addr = PcOfFetch /\ Opened.kind = insn.kind
        /\ Opened.lead = e /\ Opened.skip = cycle - 1 /\ Opened.extra = e
    BY <1>2, <1>3, <1>7, <1>8 DEF TrackSet
  <1>10. Opened.held = TRUE
    BY <1>7, <1>8, Zenon DEF TrackSet
  <1> QED  BY <1>4, <1>9, <1>10

LEMMA NotedFields ==
  ASSUME CpuOK, track \in TrackSet
  PROVE  /\ Noted \in TrackSet
         /\ Noted.held = track.held /\ Noted.addr = track.addr /\ Noted.kind = track.kind
         /\ Noted.lead = track.lead /\ Noted.skip = track.skip
         /\ Noted.extra = IF TakesStray THEN <<BusByte>> ELSE track.extra
         /\ ~TakesStray => Noted = track
  <1>1. BusByte \in Byte
    BY Sizes DEF CpuOK
  <1>2. <<BusByte>> \in Seq(Byte)
    BY <1>1
  <1>3. CASE TakesStray
    <2>1. PICK e : e = <<BusByte>> /\ e \in Seq(Byte)
      BY <1>2, Zenon
    <2>2. Noted = [track EXCEPT !.extra = e]
      BY <1>3, <2>1 DEF Noted
    <2>3. /\ Noted \in TrackSet
          /\ Noted.held = track.held /\ Noted.addr = track.addr /\ Noted.kind = track.kind
          /\ Noted.lead = track.lead /\ Noted.skip = track.skip /\ Noted.extra = e
      BY <2>1, <2>2 DEF TrackSet
    <2> QED  BY <1>3, <2>1, <2>3
  <1>4. CASE ~TakesStray
    BY <1>4 DEF Noted
  <1> QED  BY <1>3, <1>4

LEMMA ClosedFields ==
  ASSUME CpuOK, NEW x \in TrackSet
  PROVE  /\ Closed(x) \in TrackSet
         /\ Closed(x).held = x.held /\ Closed(x).addr = x.addr /\ Closed(x).kind = x.kind
         /\ Closed(x).lead = Told(x) /\ Closed(x).skip = 0 /\ Closed(x).extra = <<>>
         /\ Closed(x).ack <=> Acknowledges(insn) /\ (insn.data # <<>> \/ insn.more)
  <1>1. /\ x.held \in BOOLEAN /\ x.lead \in Seq(Byte) /\ x.skip \in Nat /\ x.extra \in Seq(Byte)
    BY DEF TrackSet
  <1>2. Encoding(insn) \in Seq(Byte) /\ insn.more \in BOOLEAN
    BY Sizes DEF CpuOK, Wellformed
  <1>3. Told(x) \in Seq(Byte)
    <2>1. \A i \in x.skip + 1 .. Len(Encoding(insn)) : Encoding(insn)[i] \in Byte
      BY <1>1, <1>2
    <2>2. x.skip + 1 \in Int /\ Len(Encoding(insn)) \in Int
      BY <1>1, <1>2
    <2>3. SubSeq(Encoding(insn), x.skip + 1, Len(Encoding(insn))) \in Seq(Byte)
      BY <2>1, <2>2, SubSeqProperties
    <2>4. x.lead \o SubSeq(Encoding(insn), x.skip + 1, Len(Encoding(insn))) \in Seq(Byte)
      BY <1>1, <2>3, ConcatProperties
    <2> QED  BY <1>1, <2>4, ConcatProperties DEF Told
  <1> DEFINE a == Acknowledges(insn) /\ (insn.data # <<>> \/ insn.more)
             s == Told(x)
  <1>4. a \in BOOLEAN /\ s \in Seq(Byte)
    BY <1>2, <1>3 DEF Acknowledges
  <1>5. PICK e : e = <<>> /\ e \in Seq(Byte)
    <2>1. <<>> \in Seq(Byte)
      OBVIOUS
    <2> QED  BY <2>1, Zenon
  <1>6. Closed(x) = [x EXCEPT !.lead = s, !.skip = 0, !.extra = e, !.ack = a]
    BY <1>5, Zenon DEF Closed
  <1> HIDE DEF a, s
  <1>7. /\ Closed(x) \in TrackSet
        /\ Closed(x).held = x.held /\ Closed(x).addr = x.addr /\ Closed(x).kind = x.kind
        /\ Closed(x).lead = s /\ Closed(x).skip = 0 /\ Closed(x).extra = e
        /\ Closed(x).ack = a
    <2>1. s \in Seq(Byte) /\ e \in Seq(Byte) /\ a \in BOOLEAN
      BY <1>4, <1>5
    <2> DEFINE y == Closed(x)
    <2>2. y = [x EXCEPT !.lead = s, !.skip = 0, !.extra = e, !.ack = a]
      BY <1>6
    <2> HIDE DEF y
    <2>3. y \in TrackSet
      BY <2>1, <2>2 DEF TrackSet
    <2>4. /\ y.addr = x.addr /\ y.kind = x.kind /\ y.lead = s /\ y.skip = 0 /\ y.extra = e
      BY <2>2 DEF TrackSet
    <2>5. y.held = x.held /\ y.ack = a
      BY <2>2, Zenon DEF TrackSet
    <2> QED  BY <2>3, <2>4, <2>5 DEF y
  <1>8. (Closed(x).ack = a) => (Closed(x).ack <=> a)
    OBVIOUS
  <1> QED  BY <1>5, <1>7, <1>8, Zenon DEF a, s

(* An edge with the tracer on.                                             *)
Edge == /\ CpuOK /\ Types /\ Watched
        /\ enabled /\ enabled' = enabled
        /\ CpuStep /\ Trace /\ Watch /\ NoteContinues

Ends == (IsFetch /\ t = 4) \/ (~IsFetch /\ t = 2)

LEMMA EdgeFacts ==
  ASSUME Edge
  PROVE  /\ Places /\ CpuOK' /\ CpuOK /\ TracerOK /\ Wellformed(insn)
         /\ Fetches \in {1, 2} /\ EncLen = Fetches + Len(insn.operands) /\ EncLen \in Fetches .. 4
         /\ Cycles = EncLen + Len(insn.data) /\ Cycles \in Nat /\ EncLen \in Nat
         /\ cycle \in 1 .. Cycles /\ cycle \in Nat /\ cycle >= 1 /\ cycle <= Cycles
         /\ Len(insn.operands) \in Nat /\ Len(insn.data) \in Nat
         /\ IsFetch <=> cycle <= Fetches
         /\ IsOperand <=> Fetches < cycle /\ cycle <= EncLen
         /\ IsFetch => t \in {1, 2, 3, 4}
         /\ ~IsFetch => t \in {1, 2}
         /\ curr.bytes \in Seq(Byte) /\ curr' \in TraceSet /\ prev' \in TraceSet
  <1>1. CpuOK /\ Types /\ Places /\ CpuOK'
    BY Placing DEF Edge
  <1>2. Wellformed(insn) /\ cycle \in 1 .. Cycles
    BY <1>1 DEF CpuOK
  <1>3. Len(insn.operands) \in Nat /\ Len(insn.data) \in Nat
    BY <1>2 DEF Wellformed
  <1>4. TracerOK /\ curr.bytes \in Seq(Byte)
    BY <1>1 DEF Types, TracerOK, TraceSet
  <1>5. curr' \in TraceSet /\ prev' \in TraceSet
    BY <1>1, <1>4, Hooks DEF Edge, TracerOK
  <1>6. /\ Fetches \in {1, 2} /\ EncLen = Fetches + Len(insn.operands) /\ EncLen \in Fetches .. 4
        /\ Cycles = EncLen + Len(insn.data) /\ Cycles \in Nat /\ EncLen \in Nat
    BY <1>2, Sizes
  <1>7. cycle \in Nat /\ cycle >= 1 /\ cycle <= Cycles
    <2>1. \A n \in Nat : cycle \in 1 .. n => cycle \in Nat /\ cycle >= 1 /\ cycle <= n
      OBVIOUS
    <2> QED  BY <1>2, <1>6, <2>1
  <1>8. /\ IsFetch <=> cycle <= Fetches
        /\ IsOperand <=> Fetches < cycle /\ cycle <= EncLen
        /\ IsFetch => t \in {1, 2, 3, 4}
        /\ ~IsFetch => t \in {1, 2}
    BY <1>1, Steps
  <1> QED  BY <1>1, <1>2, <1>3, <1>4, <1>5, <1>6, <1>7, <1>8

LEMMA Watching ==
  ASSUME Edge
  PROVE  /\ IsFetch /\ t = 3 /\ ~Belongs =>
              /\ track' = Opened /\ edges' = 1
              /\ due' = IF track.held THEN WholeTrace ELSE due
         /\ ~(IsFetch /\ t = 3 /\ ~Belongs) =>
              /\ track' = IF Ends /\ cycle = Cycles THEN Closed(Noted) ELSE Noted
              /\ edges' = edges + 1
              /\ due' = IF IsFetch /\ t = 4 THEN Empty ELSE due
         /\ ~(IsOperand /\ t = 1) /\ ~(~IsFetch /\ t = 2 /\ track.held) => stray' = stray
         /\ IsOperand /\ t = 1 => (stray' <=> stray \/ ~track.held)
         /\ ~IsFetch /\ t = 2 /\ track.held => ~stray'
         /\ TakesStray <=> ~IsFetch /\ t = 2 /\ track.held /\ stray /\ ~IsOperand
         /\ t' = 1 /\ IsFetch' => (continues' <=> Belongs')
         /\ ~(t' = 1 /\ IsFetch') =>
              (continues' <=> continues /\ (IsFetch /\ t = 3 => track.held))
  <1>1. CpuOK /\ Watch /\ NoteContinues /\ enabled /\ Types
    BY DEF Edge
  <1>2. /\ NextStep = "M1_T3_0" <=> IsFetch /\ t = 3
        /\ NextStep = "M1_T3_1" <=> IsFetch /\ t = 4
        /\ NextStep = "OP_RD_T1_0" <=> IsOperand /\ t = 1
        /\ NextStep = "RD_T3_1" <=> ~IsFetch /\ t = 2
        /\ IsOperand => ~IsFetch
        /\ IsFetch => t \in {1, 2, 3, 4}
        /\ ~IsFetch => t \in {1, 2}
    BY <1>1, Steps
  <1>3. /\ Opens <=> IsFetch /\ t = 3 /\ ~Belongs
        /\ Reads <=> ~IsFetch /\ t = 2 /\ track.held
        /\ TakesStray <=> ~IsFetch /\ t = 2 /\ track.held /\ stray /\ ~IsOperand
    BY <1>2 DEF Opens, FetchShows, Reads, TakesStray
  <1>4. InsnEnds <=> Ends /\ cycle = Cycles
    BY <1>2 DEF InsnEnds, Ends, StepsOfCycle
  <1>5. Opens => ~InsnEnds /\ NextStep # "M1_T3_1"
    BY <1>2, <1>3, <1>4 DEF Ends
  <1>6. Opens => Belongs \in BOOLEAN /\ track' = Opened /\ edges' = 1
                 /\ due' = IF track.held THEN WholeTrace ELSE due
    <2> SUFFICES ASSUME Opens PROVE track' = Opened /\ edges' = 1
                                    /\ due' = IF track.held THEN WholeTrace ELSE due
      BY DEF Belongs
    <2> QED  BY <1>1, <1>5 DEF Watch
  <1>7. ~Opens => /\ track' = IF InsnEnds THEN Closed(Noted) ELSE Noted
                  /\ edges' = edges + 1
                  /\ due' = IF NextStep = "M1_T3_1" THEN Empty ELSE due
    BY <1>1 DEF Watch
  <1>8. /\ NextStep = "OP_RD_T1_0" => stray' = (stray \/ ~track.held)
        /\ NextStep # "OP_RD_T1_0" /\ Reads => stray' = FALSE
        /\ NextStep # "OP_RD_T1_0" /\ ~Reads => stray' = stray
    <2>1. stray' = CASE NextStep = "OP_RD_T1_0" -> stray \/ ~track.held
                     [] Reads                   -> FALSE
                     [] OTHER                   -> stray
      BY <1>1 DEF Watch
    <2>2. Reads => NextStep # "OP_RD_T1_0"
      BY DEF Reads
    <2> QED  BY <2>1, <2>2
  <1>9. /\ ~(IsOperand /\ t = 1) /\ ~(~IsFetch /\ t = 2 /\ track.held) => stray' = stray
        /\ IsOperand /\ t = 1 => (stray' <=> stray \/ ~track.held)
        /\ ~IsFetch /\ t = 2 /\ track.held => ~stray'
    BY <1>2, <1>3, <1>8
  <1>10. t' = 1 /\ IsFetch' => (continues' <=> Belongs')
    BY <1>1 DEF NoteContinues
  <1>11. continues \in BOOLEAN /\ track.held \in BOOLEAN
    BY <1>1, TrackTypes DEF Types
  <1>12. ~(t' = 1 /\ IsFetch') =>
           (continues' <=> continues /\ (IsFetch /\ t = 3 => track.held))
    <2>1. FetchShows <=> IsFetch /\ t = 3
      BY <1>2 DEF FetchShows
    <2>2. ASSUME ~(t' = 1 /\ IsFetch')
          PROVE  continues' = IF FetchShows THEN continues /\ track.held ELSE continues
      BY <1>1, <2>2, Zenon DEF NoteContinues
    <2> QED  BY <1>11, <2>1, <2>2
  <1>13. IsFetch /\ t = 3 /\ ~Belongs =>
           /\ track' = Opened /\ edges' = 1
           /\ due' = IF track.held THEN WholeTrace ELSE due
    BY <1>3, <1>6, Zenon
  <1>14. ~(IsFetch /\ t = 3 /\ ~Belongs) =>
           /\ track' = IF Ends /\ cycle = Cycles THEN Closed(Noted) ELSE Noted
           /\ edges' = edges + 1
           /\ due' = IF IsFetch /\ t = 4 THEN Empty ELSE due
    <2>1. ASSUME ~Opens
          PROVE  /\ track' = IF Ends /\ cycle = Cycles THEN Closed(Noted) ELSE Noted
                 /\ edges' = edges + 1
                 /\ due' = IF IsFetch /\ t = 4 THEN Empty ELSE due
      BY <1>2, <1>4, <1>7, <2>1
    <2> QED  BY <1>3, <2>1, Zenon
  <1>15. TakesStray <=> ~IsFetch /\ t = 2 /\ track.held /\ stray /\ ~IsOperand
    BY <1>3
  <1> QED  BY <1>9, <1>10, <1>12, <1>13, <1>14, <1>15, Zenon

-----------------------------------------------------------------------------
(* The steps keep the invariant. *)

LEMMA TypesKept ==
  ASSUME CpuOK, Types, Next
  PROVE  Types'
  <1>1. /\ TracerOK /\ enabled \in BOOLEAN /\ track \in TrackSet
        /\ stray \in BOOLEAN /\ continues \in BOOLEAN /\ edges \in Nat
    BY DEF Types, TracerOK
  <1>2. track.held \in BOOLEAN /\ Belongs \in BOOLEAN /\ Belongs' \in BOOLEAN
    BY <1>1, TrackTypes DEF Belongs
  <1>3. ASSUME ClockEdge PROVE Types'
    <2>1. TracerOK'
      <3>1. CASE enabled
        <4>1. Trace
          BY <1>3, <3>1 DEF ClockEdge
        <4> QED  BY <1>1, <4>1, Hooks
      <3>2. CASE ~enabled
        <4>1. UNCHANGED tracer
          BY <1>3, <3>2 DEF ClockEdge
        <4> QED  BY <1>1, <4>1 DEF TracerOK, tracer
      <3> QED  BY <3>1, <3>2
    <2>2. enabled' = enabled
      BY <1>3 DEF ClockEdge
    <2>3. continues' \in BOOLEAN
      <3>1. NoteContinues
        BY <1>3 DEF ClockEdge
      <3> QED  BY <1>1, <1>2, <3>1 DEF NoteContinues
    <2>4. track' \in TrackSet /\ stray' \in BOOLEAN /\ edges' \in Nat
      <3>1. CASE enabled
        <4>1. Watch
          BY <1>3, <3>1 DEF ClockEdge
        <4>2. track' \in {Opened, Closed(Noted), Noted}
          BY <4>1 DEF Watch
        <4>3. track' \in TrackSet
          BY <1>1, <4>2, OpenedFields, NotedFields, ClosedFields
        <4>4. edges' \in Nat
          BY <1>1, <4>1 DEF Watch
        <4>5. stray' = CASE NextStep = "OP_RD_T1_0" -> stray \/ ~track.held
                         [] Reads                   -> FALSE
                         [] OTHER                   -> stray
          BY <4>1 DEF Watch
        <4>6. stray' \in BOOLEAN
          <5>1. Reads => NextStep # "OP_RD_T1_0"
            BY DEF Reads
          <5> QED  BY <1>1, <4>5, <5>1
        <4> QED  BY <4>3, <4>4, <4>6
      <3>2. CASE ~enabled
        BY <1>1, <1>3, <3>2 DEF ClockEdge
      <3> QED  BY <3>1, <3>2
    <2> QED  BY <1>1, <2>1, <2>2, <2>3, <2>4 DEF Types, TracerOK
  <1>4. ASSUME NEW v \in BOOLEAN, SetEnabled(v) PROVE Types'
    <2>1. enabled' \in BOOLEAN
      BY <1>4 DEF SetEnabled
    <2>2. /\ track' \in TrackSet /\ stray' \in BOOLEAN /\ edges' \in Nat
          /\ continues' \in BOOLEAN
      <3>1. CASE v = enabled
        BY <1>1, <1>4, <3>1 DEF SetEnabled, history
      <3>2. CASE v # enabled
        <4>1. Forget
          BY <1>4, <3>2 DEF SetEnabled
        <4> QED  BY <1>1, <4>1, NoTrackFields DEF Forget
      <3> QED  BY <3>1, <3>2
    <2>3. TracerOK'
      <3>1. CASE UNCHANGED tracer
        BY <1>1, <3>1 DEF TracerOK, tracer
      <3>2. CASE ResetBuffers
        <4>1. curr' = Empty /\ prev' = Empty /\ inOpRd' = FALSE /\ multicycle' = FALSE
          BY <3>2 DEF ResetBuffers
        <4>2. Len(Empty.bytes) <= 4 /\ Empty \in TraceSet
          BY EmptyFields
        <4> QED  BY <4>1, <4>2 DEF TracerOK
      <3> QED  BY <1>4, <3>1, <3>2 DEF SetEnabled
    <2> QED  BY <2>1, <2>2, <2>3 DEF Types, TracerOK
  <1> QED  BY <1>3, <1>4 DEF Next

(* T1 and T2 of a fetch, the first half of a read.                         *)
LEMMA WithinKept ==
  ASSUME Edge, t' = t + 1, cycle' = cycle, Onward,
         (IsFetch /\ t \in {1, 2}) \/ (~IsFetch /\ t = 1),
         IsFetch' <=> IsFetch, IsOperand' <=> IsOperand
  PROVE  Held' /\ NotHeld' /\ Operand' /\ HoldsReport'
  <1>1. /\ CpuOK /\ Types /\ TracerOK /\ Trace
        /\ Held /\ NotHeld /\ Operand /\ HoldsReport
    BY EdgeFacts DEF Edge, Watched
  <1>2. /\ IsOperand => ~IsFetch
        /\ Fetches \in {1, 2} /\ cycle \in Nat /\ cycle >= 1
        /\ IsFetch <=> cycle <= Fetches
    BY EdgeFacts DEF IsOperand
  <1>3. /\ Same /\ prev' = prev /\ multicycle' = multicycle
        /\ IsFetch \/ ~IsOperand => inOpRd' = inOpRd
        /\ IsOperand => inOpRd'
        /\ IsFetch /\ t = 1 => curr'.nextPc = PcOfFetch
        /\ IsFetch /\ t = 2 => curr'.nextPc = curr.nextPc
    BY <1>1, <1>2, Hooks
  <1>4. /\ insn' = insn /\ Fetches' = Fetches /\ EncLen' = EncLen
        /\ t # 3 /\ t # 4 /\ t' # 4 /\ t' # 1 /\ ~Ends
        /\ curr'.hc = curr.hc + 1 /\ curr'.bytes = curr.bytes
        /\ curr'.startAddr = curr.startAddr /\ curr'.m1Type = curr.m1Type
    BY <1>3 DEF Onward, Same, GoesOn, Ends
  <1>5. /\ Noted = track /\ track \in TrackSet
    BY <1>1, <1>4, Watching, NotedFields DEF Types
  <1>6. /\ track' = track /\ edges' = edges + 1 /\ due' = due
        /\ continues' <=> continues
        /\ IsOperand => (stray' <=> stray \/ ~track.held)
        /\ ~IsOperand => stray' = stray
    BY <1>2, <1>4, <1>5, Watching
  <1>7. Encoding(insn)' = Encoding(insn) /\ Shown' = Shown /\ PcOfFetch' = PcOfFetch
    BY <1>2, <1>4 DEF Encoding, Shown, PcOfFetch
  <1>8. Ahead' <=> Ahead
    BY <1>2 DEF Ahead
  <1>9. ASSUME track.held PROVE Begins' /\ Extra' /\ Holds' /\ Alone' /\ Joined'
    <2>1. Begins /\ Extra /\ Holds /\ Alone /\ Joined
      BY <1>1, <1>9 DEF Held
    <2>2. stray' <=> stray
      BY <1>6, <1>9
    <2>3. Begins'
      <3>1. CASE cycle = 1 /\ Ahead
        BY <1>6, <1>8, <2>1, <3>1 DEF Begins
      <3>2. CASE ~(cycle = 1 /\ Ahead)
        <4>1. CASE IsFetch
          <5>1. cycle # 1 /\ t <= 3 /\ t' <= 3
            BY <3>2, <4>1 DEF Ahead
          <5> QED  BY <1>4, <1>6, <1>8, <2>1, <3>2, <5>1 DEF Begins
        <4>2. CASE ~IsFetch
          <5>1. cycle > Fetches
            BY <1>2, <4>2
          <5>2. Fetches = 2 => cycle # 1 /\ cycle # 2
            BY <5>1
          <5> QED  BY <1>4, <1>6, <1>8, <2>1, <3>2, <5>2 DEF Begins
        <4> QED  BY <4>1, <4>2
      <3> QED  BY <3>1, <3>2
    <2>4. Extra'
      BY <1>4, <1>6, <2>1, <2>2 DEF Extra
    <2>5. Holds'
      <3>1. Part(Shown)' = Part(Shown)
        BY <1>6, <1>7 DEF Part
      <3>2. Ahead' /\ t' # 1 => curr'.nextPc = PcOfFetch'
        <4>1. ASSUME Ahead' PROVE curr'.nextPc = PcOfFetch
          <5>1. IsFetch
            BY <1>8, <4>1 DEF Ahead
          <5>2. CASE t = 1
            BY <1>3, <5>1, <5>2
          <5>3. CASE t = 2
            BY <1>3, <1>8, <2>1, <4>1, <5>1, <5>3 DEF Holds
          <5> QED  BY <5>1, <5>2, <5>3
        <4> QED  BY <1>7, <4>1
      <3> QED  BY <1>4, <1>6, <2>1, <3>1, <3>2 DEF Holds
    <2>6. Alone'
      BY <1>3, <1>4, <1>6, <1>8, <2>1 DEF Alone
    <2>7. Belongs' <=> Belongs
      BY <1>4, <1>6 DEF Belongs
    <2>8. Joined'
      BY <1>4, <1>6, <1>8, <2>1, <2>7 DEF Joined
    <2> QED  BY <2>3, <2>4, <2>5, <2>6, <2>8
  <1>10. Held'
    BY <1>6, <1>9 DEF Held
  <1>11. NotHeld'
    BY <1>1, <1>4, <1>6 DEF NotHeld
  <1>12. Operand'
    <2>1. CASE IsFetch
      BY <1>1, <1>2, <1>3, <1>6, <2>1 DEF Operand
    <2>2. CASE ~IsFetch
      <3>1. t' = 2 /\ t # 2
        BY <2>2
      <3>2. inOpRd <=> stray
        BY <1>1, <3>1 DEF Operand
      <3>3. inOpRd' <=> inOpRd \/ IsOperand
        BY <1>3, <3>1
      <3>4. (IsOperand' /\ t' = 2 /\ track'.held) \/ stray' <=> stray \/ IsOperand
        BY <1>6, <3>1
      <3> QED  BY <3>2, <3>3, <3>4, Zenon DEF Operand
    <2> QED  BY <2>1, <2>2
  <1>13. HoldsReport'
    <2>1. prev.bytes = <<>> /\ due = Empty
      BY <1>1, <1>4 DEF HoldsReport
    <2> QED  BY <1>3, <1>4, <1>6, <2>1 DEF HoldsReport
  <1> QED  BY <1>10, <1>11, <1>12, <1>13

LEMMA OneByte ==
  ASSUME NEW e \in Seq(Byte), NEW s \in Nat, s < Len(e)
  PROVE  SubSeq(e, s + 1, s + 1) = <<e[s + 1]>>
  <1>1. \A i \in s + 1 .. s + 1 : e[i] \in Byte
    OBVIOUS
  <1>2. s + 1 \in Int
    OBVIOUS
  <1>3. /\ SubSeq(e, s + 1, s + 1) \in Seq(Byte)
        /\ Len(SubSeq(e, s + 1, s + 1)) = 1
        /\ SubSeq(e, s + 1, s + 1)[1] = e[s + 1]
    <2>1. /\ SubSeq(e, s + 1, s + 1) \in Seq(Byte)
          /\ Len(SubSeq(e, s + 1, s + 1)) =
               IF s + 1 <= s + 1 THEN (s + 1) - (s + 1) + 1 ELSE 0
          /\ \A i \in 1 .. (s + 1) - (s + 1) + 1 : SubSeq(e, s + 1, s + 1)[i] = e[s + 1 + i - 1]
      BY <1>1, <1>2, SubSeqProperties
    <2>2. 1 \in 1 .. (s + 1) - (s + 1) + 1 /\ s + 1 + 1 - 1 = s + 1
      OBVIOUS
    <2>3. (IF s + 1 <= s + 1 THEN (s + 1) - (s + 1) + 1 ELSE 0) = 1
      OBVIOUS
    <2>4. SubSeq(e, s + 1, s + 1)[1] = e[s + 1 + 1 - 1]
      BY <2>1, <2>2, Zenon
    <2>5. e[s + 1 + 1 - 1] = e[s + 1]
      BY <2>2, Zenon
    <2>6. SubSeq(e, s + 1, s + 1)[1] = e[s + 1]
      BY <2>4, <2>5, Zenon
    <2>7. Len(SubSeq(e, s + 1, s + 1)) = 1
      BY <2>1, <2>3, Zenon
    <2> QED  BY <2>1, <2>6, <2>7, Zenon
  <1> DEFINE x == SubSeq(e, s + 1, s + 1)
  <1> HIDE DEF x
  <1>4. ASSUME x \in Seq(Byte), Len(x) = 1, x[1] = e[s + 1] PROVE x = <<e[s + 1]>>
    BY <1>4
  <1> QED  BY <1>3, <1>4 DEF x

(* T3 of a fetch that goes on with the trace, and of one that does not.    *)
LEMMA BelongingKept ==
  ASSUME Edge, t = 3, t' = t + 1, cycle' = cycle, Onward, IsFetch, IsFetch', ~IsOperand', Belongs
  PROVE  Held' /\ NotHeld' /\ Operand' /\ HoldsReport'
  <1>1. /\ CpuOK /\ Types /\ Watched /\ enabled /\ TracerOK /\ Trace
        /\ Held /\ NotHeld /\ Operand /\ HoldsReport
    BY EdgeFacts DEF Edge, Watched
  <1>2. /\ Fetches \in {1, 2} /\ cycle \in Nat /\ EncLen \in Fetches .. 4 /\ EncLen \in Nat
        /\ cycle <= Fetches
    BY EdgeFacts
  <1>3. ContinuesChain /\ BusByte = Encoding(insn)[cycle] /\ cycle \in {1, 2}
        /\ (cycle = 2 => Fetches = 2)
    BY <1>1, Continuing
  <1>4. Longer /\ UNCHANGED <<prev, inOpRd, multicycle>>
    BY <1>1, <1>3, Hooks
  <1>5. track.held
    BY DEF Belongs
  <1>6. /\ insn' = insn /\ Fetches' = Fetches /\ EncLen' = EncLen /\ t' = 4 /\ ~Ends
        /\ curr'.hc = curr.hc + 1 /\ curr'.bytes = Append(curr.bytes, BusByte)
        /\ curr'.startAddr = curr.startAddr /\ curr'.m1Type = curr.m1Type
    BY <1>4 DEF Onward, Longer, GoesOn, Ends
  <1>7. Noted = track /\ track \in TrackSet /\ ~IsOperand
    BY <1>1, <1>6, Watching, NotedFields DEF Types, IsOperand
  <1>8. /\ track' = track /\ edges' = edges + 1 /\ due' = due /\ stray' = stray
        /\ continues' <=> continues
    BY <1>5, <1>6, <1>7, Watching
  <1>9. Tracing /\ Begins /\ Extra /\ Holds /\ Alone /\ Joined /\ Ahead
    BY <1>1, <1>5 DEF Tracing, Watched, Held, Ahead
  <1>10. /\ track.skip = 0 /\ ~Ahead' /\ Shown = cycle - 1 /\ Shown' = cycle
    <2>1. cycle = 1 => track.skip = 0
      BY <1>9 DEF Begins
    <2>2. cycle = 2 => track.skip = 0
      BY DEF Belongs
    <2> QED  BY <1>3, <1>6, <1>9, <2>1, <2>2 DEF Ahead, Shown
  <1>11. \/ cycle = 1 /\ Len(track.lead) = 1 /\ track.lead # <<>>
         \/ cycle = 2 /\ Fetches = 2 /\ track.lead = <<>>
    <2>1. cycle = 1 => Len(track.lead) = 1
      BY DEF Belongs
    <2>2. cycle = 2 => track.lead = <<>>
      BY DEF Belongs
    <2>3. Len(<<>>) = 0
      OBVIOUS
    <2> QED  BY <1>3, <2>1, <2>2, <2>3
  <1>12. Begins'
    <2>1. CASE cycle = 1
      BY <1>6, <1>8, <1>10, <1>11, <2>1 DEF Begins
    <2>2. CASE cycle = 2
      BY <1>6, <1>8, <1>10, <1>11, <2>2 DEF Begins
    <2> QED  BY <1>3, <2>1, <2>2
  <1>13. track.extra = <<>>
    <2>1. ~(cycle > Fetches + 1)
      BY <1>2
    <2> QED  BY <1>9, <2>1 DEF Extra
  <1>14. Extra'
    BY <1>6, <1>8, <1>9 DEF Extra
  <1>15. Holds'
    <2>1. /\ track.lead \in Seq(Byte) /\ curr.bytes = Part(Shown)
      BY <1>9, <1>13, InTrace
    <2>2. Encoding(insn) \in Seq(Byte) /\ cycle - 1 \in Nat /\ 0 \in Nat
          /\ 0 <= cycle - 1 /\ cycle - 1 < Len(Encoding(insn)) /\ cycle - 1 + 1 = cycle
      BY <1>1, <1>2, <1>3, Sizes DEF CpuOK, EncLen
    <2>3. /\ track.lead \o SubSeq(Encoding(insn), 0 + 1, cycle - 1 + 1)
              = Append(track.lead \o SubSeq(Encoding(insn), 0 + 1, cycle - 1),
                       Encoding(insn)[cycle - 1 + 1])
      BY <2>1, <2>2, Grown
    <2>4. Part(cycle) = Append(Part(Shown), BusByte)
      BY <1>3, <1>10, <2>2, <2>3 DEF Part
    <2>5. Part(Shown)' = Part(cycle)
      BY <1>6, <1>8, <1>10 DEF Part, Encoding
    <2>6. curr'.bytes = Part(Shown)'
      BY <1>6, <2>1, <2>4, <2>5
    <2>7. Part(Shown)' \in Seq(Byte)
      <3>1. curr'.bytes \in Seq(Byte)
        BY EdgeFacts DEF TraceSet
      <3> QED  BY <2>6, <3>1
    <2>8. Part(Shown)' \o <<>> = Part(Shown)'
      BY <2>7, ConcatEmptySeq
    <2>9. track'.extra = <<>>
      BY <1>8, <1>13
    <2> QED  BY <1>6, <1>8, <1>9, <1>10, <2>6, <2>8, <2>9 DEF Holds
  <1>16. Alone'
    BY <1>10 DEF Alone
  <1>17. Joined'
    <2>1. cycle = 2 => cycle' > 1
      OBVIOUS
    <2> QED  BY <1>6, <1>8, <1>10, <1>11, <2>1 DEF Joined
  <1>18. NotHeld'
    BY <1>5, <1>8 DEF NotHeld
  <1>19. Operand'
    BY <1>1, <1>4, <1>7, <1>8 DEF Operand
  <1>20. HoldsReport'
    <2>1. prev.bytes = <<>> /\ due = Empty
      BY <1>1 DEF HoldsReport
    <2> QED  BY <1>4, <1>8, <2>1 DEF HoldsReport
  <1> QED  BY <1>12, <1>14, <1>15, <1>16, <1>17, <1>18, <1>19, <1>20 DEF Held

LEMMA OpeningKept ==
  ASSUME Edge, t = 3, t' = t + 1, cycle' = cycle, Onward, IsFetch, IsFetch', ~IsOperand', ~Belongs
  PROVE  Held' /\ NotHeld' /\ Operand' /\ HoldsReport'
  <1>1. /\ CpuOK /\ Types /\ Watched /\ enabled /\ TracerOK /\ Trace /\ Wellformed(insn)
        /\ Held /\ NotHeld /\ Operand /\ HoldsReport
    BY EdgeFacts DEF Edge, Watched
  <1>2. /\ Fetches \in {1, 2} /\ cycle \in Nat /\ EncLen \in Fetches .. 4 /\ EncLen \in Nat
        /\ cycle <= Fetches
    BY EdgeFacts
  <1>3. ~ContinuesChain /\ BusByte = Encoding(insn)[cycle] /\ cycle \in {1, 2}
        /\ (cycle = 2 => Fetches = 2)
    BY <1>1, Continuing
  <1>4. Fresh /\ prev' = curr /\ UNCHANGED <<inOpRd, multicycle>>
    BY <1>1, <1>3, Hooks
  <1>5. /\ insn' = insn /\ Fetches' = Fetches /\ EncLen' = EncLen /\ t' = 4 /\ ~Ahead' /\ ~IsOperand
    BY DEF Onward, Ahead, IsOperand
  <1>6. /\ track' = Opened /\ edges' = 1 /\ stray' = stray
        /\ due' = IF track.held THEN WholeTrace ELSE due
        /\ continues' <=> continues /\ track.held
    BY <1>5, Watching
  <1>7. /\ track'.held = TRUE /\ track'.addr = PcOfFetch /\ track'.kind = insn.kind
        /\ track'.lead = <<>> /\ track'.skip = cycle - 1 /\ track'.extra = <<>>
    BY <1>1, <1>6, OpenedFields
  <1>8. Begins'
    BY <1>3, <1>5, <1>7 DEF Begins
  <1>9. Extra'
    BY <1>2, <1>5, <1>7 DEF Extra
  <1>10. Holds'
    <2>1. Encoding(insn) \in Seq(Byte) /\ cycle - 1 \in Nat /\ cycle - 1 < Len(Encoding(insn))
          /\ cycle - 1 + 1 = cycle
      BY <1>1, <1>2, <1>3, Sizes DEF EncLen
    <2>2. SubSeq(Encoding(insn), cycle - 1 + 1, cycle) = <<BusByte>>
      BY <1>3, <2>1, OneByte
    <2>3. BusByte \in Byte
      BY <1>1, Sizes DEF CpuOK
    <2>4. <<BusByte>> \in Seq(Byte)
      BY <2>3
    <2>5. (<<>> \o <<BusByte>>) \o <<>> = <<BusByte>>
      BY <2>4, ConcatEmptySeq
    <2>6. Shown' = cycle
      BY <1>5 DEF Shown
    <2>7. Part(Shown)' \o track'.extra = (<<>> \o SubSeq(Encoding(insn), cycle - 1 + 1, cycle)) \o <<>>
      BY <1>5, <1>7, <2>6 DEF Part, Encoding
    <2>8. curr'.bytes = Part(Shown)' \o track'.extra
      BY <1>4, <2>2, <2>5, <2>7 DEF Fresh
    <2>9. curr'.startAddr = track'.addr /\ curr'.m1Type = track'.kind /\ curr'.hc = edges'
      BY <1>4, <1>6, <1>7 DEF Fresh
    <2> QED  BY <1>5, <2>8, <2>9 DEF Holds
  <1>11. Alone'
    BY <1>5 DEF Alone
  <1>12. Joined'
    <2>1. ~continues'
      <3>1. track.held => (continues <=> Belongs)
        BY <1>1 DEF Held, Joined, Ahead
      <3> QED  BY <1>6, <3>1
    <2> QED  BY <1>5, <2>1 DEF Joined
  <1>13. NotHeld'
    BY <1>7 DEF NotHeld
  <1>14. Operand'
    BY <1>1, <1>4, <1>5, <1>6 DEF Operand
  <1>15. due = Empty
    BY <1>1 DEF HoldsReport
  <1>16. HoldsReport'
    <2>1. CASE ~track.held
      <3>1. curr.bytes = <<>>
        BY <1>1, <2>1 DEF NotHeld
      <3> QED  BY <1>4, <1>6, <1>15, <2>1, <3>1 DEF HoldsReport
    <2>2. CASE track.held
      <3>1. Tracing /\ Begins /\ Extra /\ Holds /\ Ahead
        BY <1>1, <2>2 DEF Tracing, Watched, Held, Ahead
      <3>2. track.extra = <<>>
        <4>1. ~(cycle > Fetches + 1)
          BY <1>2
        <4> QED  BY <3>1, <4>1 DEF Extra
      <3>3. /\ curr.bytes = Part(Shown) /\ curr.bytes # <<>> /\ track.lead \in Seq(Byte)
            /\ Shown = cycle - 1
        BY <3>1, <3>2, InTrace DEF Shown, Ahead
      <3>4. curr.bytes = track.lead \o SubSeq(insn.fetch, 1, cycle - 1)
        <4>1. CASE cycle = 1
          <5>1. track.skip = 0
            BY <3>1, <4>1 DEF Begins
          <5>2. Part(0) = track.lead \o SubSeq(Encoding(insn), 0 + 1, 0)
            BY <5>1 DEF Part
          <5>3. SubSeq(Encoding(insn), 0 + 1, 0) = <<>> /\ SubSeq(insn.fetch, 1, 0) = <<>>
            BY SubSeqEmpty
          <5> QED  BY <3>3, <4>1, <5>2, <5>3
        <4>2. CASE cycle = 2
          <5>1. track.skip = 0
            <6>1. track.skip = 0 \/ (cycle = 2 => t = 4)
              BY <3>1, <4>2 DEF Begins
            <6> QED  BY <4>2, <6>1
          <5>2. Part(1) = track.lead \o SubSeq(Encoding(insn), 0 + 1, 0 + 1)
            BY <5>1 DEF Part
          <5>3. /\ Encoding(insn) \in Seq(Byte) /\ 0 < Len(Encoding(insn))
                /\ Encoding(insn)[1] = insn.fetch[1]
            BY <1>1, <1>2, Sizes DEF EncLen
          <5>4. insn.fetch \in Seq(Byte) /\ 0 < Len(insn.fetch) /\ 0 \in Nat
            BY <1>1, <1>2 DEF Wellformed, Fetches
          <5>5. /\ SubSeq(Encoding(insn), 0 + 1, 0 + 1) = <<Encoding(insn)[0 + 1]>>
                /\ SubSeq(insn.fetch, 0 + 1, 0 + 1) = <<insn.fetch[0 + 1]>>
            BY <5>3, <5>4, OneByte
          <5>6. SubSeq(Encoding(insn), 0 + 1, 0 + 1) = SubSeq(insn.fetch, 1, 1)
            BY <5>3, <5>5
          <5> QED  BY <3>3, <4>2, <5>2, <5>6
        <4> QED  BY <1>3, <4>1, <4>2
      <3>5. /\ curr.startAddr = track.addr /\ curr.m1Type = track.kind /\ curr.hc = edges
            /\ curr.nextPc = PcOfFetch
        BY <3>1 DEF Holds
      <3>6. curr = [startAddr |-> curr.startAddr, bytes |-> curr.bytes, m1Type |-> curr.m1Type,
                    hc |-> curr.hc, nextPc |-> curr.nextPc]
        BY <1>1 DEF Types, TraceSet
      <3>7. curr = WholeTrace
        BY <3>4, <3>5, <3>6, Zenon DEF WholeTrace
      <3>8. due' = WholeTrace /\ prev' = due' /\ due'.bytes # <<>>
        BY <1>4, <1>6, <2>2, <3>3, <3>7
      <3>9. due' # Empty
        BY <3>8, EmptyFields
      <3> QED  BY <1>5, <3>8, <3>9 DEF HoldsReport
    <2> QED  BY <2>1, <2>2
  <1> QED  BY <1>8, <1>9, <1>10, <1>11, <1>12, <1>13, <1>14, <1>16 DEF Held

(* At the end of a cycle the trace holds what the cycles so far have       *)
(* shown.                                                                  *)
Own == IF cycle <= EncLen THEN cycle ELSE EncLen

LEMMA EndOfCycle ==
  ASSUME Edge, Ends
  PROVE  /\ track.held =>
              /\ curr'.bytes = (track.lead \o SubSeq(Encoding(insn), track.skip + 1, Own)) \o Noted.extra
              /\ curr'.bytes # <<>>
              /\ GoesOn /\ curr.startAddr = track.addr /\ curr.m1Type = track.kind
              /\ curr.hc = edges
              /\ Noted.extra # <<>> => cycle >= Fetches + 1 /\ EncLen = Fetches
         /\ ~track.held => curr'.bytes = <<>>
         /\ inOpRd' <=> stray'
         /\ prev'.bytes = <<>> /\ due' = Empty
         /\ stray' /\ track.held => IsFetch
         /\ Noted \in TrackSet /\ Noted.lead = track.lead /\ Noted.skip = track.skip
         /\ Noted.held = track.held /\ Noted.addr = track.addr /\ Noted.kind = track.kind
         /\ IsFetch => multicycle' = HasMoreMCycles
         /\ ~IsFetch => multicycle' = multicycle
  <1>1. /\ CpuOK /\ Types /\ Watched /\ enabled /\ TracerOK /\ Trace /\ Wellformed(insn)
        /\ Held /\ NotHeld /\ Operand /\ HoldsReport
    BY EdgeFacts DEF Edge, Watched
  <1>2. /\ Fetches \in {1, 2} /\ cycle \in Nat /\ EncLen \in Fetches .. 4 /\ EncLen \in Nat
        /\ IsFetch <=> cycle <= Fetches
        /\ IsOperand <=> Fetches < cycle /\ cycle <= EncLen
        /\ IsFetch => t \in {1, 2, 3, 4}
        /\ ~IsFetch => t \in {1, 2}
        /\ curr.bytes \in Seq(Byte)
    BY EdgeFacts
  <1>3. /\ Noted \in TrackSet /\ Noted.lead = track.lead /\ Noted.skip = track.skip
        /\ Noted.held = track.held /\ Noted.addr = track.addr /\ Noted.kind = track.kind
        /\ Noted.extra = IF TakesStray THEN <<BusByte>> ELSE track.extra
        /\ ~TakesStray => Noted = track
    BY <1>1, NotedFields DEF Types
  <1>4. /\ ~(IsFetch /\ t = 3)
        /\ TakesStray <=> ~IsFetch /\ t = 2 /\ track.held /\ stray /\ ~IsOperand
        /\ due' = IF IsFetch /\ t = 4 THEN Empty ELSE due
    BY Watching DEF Ends
  <1>5. ASSUME track.held
        PROVE  /\ Tracing /\ Extra /\ curr.bytes # <<>> /\ track.lead \in Seq(Byte)
               /\ curr.bytes = Part(Shown) \o track.extra
               /\ curr.startAddr = track.addr /\ curr.m1Type = track.kind /\ curr.hc = edges
               /\ track.skip \in Nat /\ track.skip <= Shown /\ Part(Shown) \in Seq(Byte)
    <2>1. Tracing /\ Extra /\ Holds
      BY <1>1, <1>5 DEF Tracing, Held
    <2> QED  BY <2>1, InTrace DEF Holds
  <1>6. CASE IsFetch
    <2>1. t = 4
      BY <1>6 DEF Ends
    <2>2. /\ Same /\ prev'.bytes = <<>> /\ inOpRd' = inOpRd /\ multicycle' = HasMoreMCycles
      BY <1>1, <1>6, <2>1, Hooks
    <2>3. stray' = stray /\ ~TakesStray /\ due' = Empty /\ ~IsOperand
      BY <1>2, <1>4, <1>6, <2>1, Watching
    <2>4. inOpRd' <=> stray'
      BY <1>1, <2>2, <2>3 DEF Operand
    <2>5. Shown = Own
      BY <1>2, <1>6, <2>1 DEF Shown, Own
    <2>6. ~(cycle > Fetches + 1)
      BY <1>2, <1>6
    <2>7. ASSUME track.held
          PROVE  /\ curr'.bytes = (track.lead \o SubSeq(Encoding(insn), track.skip + 1, Own)) \o Noted.extra
                 /\ curr'.bytes # <<>> /\ Noted.extra = <<>>
      <3>1. track.extra = <<>>
        BY <1>5, <2>6, <2>7 DEF Extra
      <3> QED  BY <1>3, <1>5, <2>2, <2>3, <2>5, <2>7, <3>1 DEF Same, Part
    <2>8. ~track.held => curr'.bytes = <<>>
      BY <1>1, <2>2 DEF NotHeld, Same
    <2> QED  BY <1>3, <1>5, <1>6, <2>2, <2>3, <2>4, <2>7, <2>8 DEF Same
  <1>7. CASE ~IsFetch
    <2>1. t = 2
      BY <1>7 DEF Ends
    <2>2. /\ Captures <=> track.held /\ (IsOperand \/ stray)
          /\ track.held /\ (IsOperand \/ stray) => track.extra = <<>> /\ curr.bytes = Part(Shown)
          /\ track.held /\ stray /\ ~IsOperand => cycle = Fetches + 1 /\ EncLen = Fetches
      BY <1>1, <1>7, <2>1, Capturing
    <2>3. prev'.bytes = <<>> /\ due' = Empty /\ multicycle' = multicycle
      <3>1. prev.bytes = <<>> /\ due = Empty
        BY <1>1, <1>7 DEF HoldsReport
      <3>2. prev' = prev /\ multicycle' = multicycle
        BY <1>1, <1>7, <2>1, Hooks
      <3> QED  BY <1>4, <1>7, <3>1, <3>2
    <2>4. stray' /\ track.held => IsFetch
      BY <1>7, <2>1, Watching
    <2>5. CASE ~track.held
      <3>1. /\ ~Captures /\ stray' = stray
        BY <1>7, <2>1, <2>2, <2>5, Watching
      <3>2. Same /\ inOpRd' = inOpRd
        BY <1>1, <1>7, <2>1, <3>1, Hooks
      <3>3. inOpRd' <=> stray'
        BY <1>1, <2>5, <3>1, <3>2 DEF Operand
      <3>4. curr'.bytes = <<>>
        BY <1>1, <2>5, <3>2 DEF NotHeld, Same
      <3> QED  BY <1>3, <1>7, <2>3, <2>5, <3>3, <3>4
    <2>6. CASE track.held /\ ~IsOperand /\ ~stray
      <3>1. ~Captures /\ ~stray' /\ ~TakesStray
        BY <1>4, <1>7, <2>1, <2>2, <2>6, Watching
      <3>2. Same /\ inOpRd' = inOpRd
        BY <1>1, <1>7, <2>1, <3>1, Hooks
      <3>3. ~inOpRd
        BY <1>1, <2>6 DEF Operand
      <3>4. Shown = Own
        BY <1>2, <1>7, <2>6 DEF Shown, Own
      <3>5. Noted.extra # <<>> => cycle >= Fetches + 1 /\ EncLen = Fetches
        BY <1>2, <1>3, <1>5, <2>6, <3>1 DEF Extra
      <3>6. curr'.bytes = (track.lead \o SubSeq(Encoding(insn), track.skip + 1, Own)) \o Noted.extra
        BY <1>3, <1>5, <2>6, <3>1, <3>2, <3>4 DEF Same, Part
      <3>7. curr'.bytes # <<>> /\ GoesOn
        BY <1>5, <2>6, <3>2 DEF Same
      <3> QED  BY <1>3, <1>5, <1>7, <2>3, <2>4, <2>6, <3>1, <3>2, <3>3, <3>5, <3>6, <3>7
    <2>7. CASE track.held /\ (IsOperand \/ stray)
      <3>1. Captures /\ ~stray' /\ track.extra = <<>> /\ curr.bytes = Part(Shown)
        BY <1>7, <2>1, <2>2, <2>7, Watching
      <3>2. Longer /\ ~inOpRd'
        BY <1>1, <1>7, <2>1, <3>1, Hooks
      <3>3. BusByte \in Byte
        BY <1>1, Sizes DEF CpuOK
      <3>4. GoesOn /\ curr'.bytes = Append(Part(Shown), BusByte)
        BY <3>1, <3>2 DEF Longer
      <3>5. curr'.bytes # <<>>
        BY <1>5, <2>7, <3>3, <3>4, AppendProperties
      <3>6. /\ curr'.bytes = (track.lead \o SubSeq(Encoding(insn), track.skip + 1, Own)) \o Noted.extra
            /\ Noted.extra # <<>> => cycle >= Fetches + 1 /\ EncLen = Fetches
        <4>1. CASE IsOperand
          <5>1. Shown = cycle - 1 /\ Own = cycle
            BY <1>2, <1>7, <4>1 DEF Shown, Own
          <5>2. Encoding(insn) \in Seq(Byte) /\ cycle - 1 \in Nat
                /\ track.skip <= cycle - 1 /\ cycle - 1 < Len(Encoding(insn)) /\ cycle - 1 + 1 = cycle
            BY <1>1, <1>2, <1>5, <2>7, <4>1, <5>1, Sizes DEF EncLen
          <5>3. BusByte = Encoding(insn)[cycle]
            BY <1>1, <1>2, <4>1, Sizes DEF CpuOK
          <5>4. track.lead \o SubSeq(Encoding(insn), track.skip + 1, cycle - 1 + 1)
                  = Append(track.lead \o SubSeq(Encoding(insn), track.skip + 1, cycle - 1),
                           Encoding(insn)[cycle - 1 + 1])
            BY <1>5, <2>7, <5>2, Grown
          <5>5. curr'.bytes = track.lead \o SubSeq(Encoding(insn), track.skip + 1, Own)
            BY <3>4, <5>1, <5>2, <5>3, <5>4 DEF Part
          <5>6. Noted.extra = <<>>
            BY <1>3, <1>4, <3>1, <4>1
          <5>7. curr'.bytes \in Seq(Byte)
            BY EdgeFacts DEF TraceSet
          <5>8. curr'.bytes \o <<>> = curr'.bytes
            BY <5>7, ConcatEmptySeq
          <5> QED  BY <5>5, <5>6, <5>8
        <4>2. CASE ~IsOperand
          <5>1. Shown = EncLen /\ Own = EncLen
            BY <1>2, <1>7, <4>2 DEF Shown, Own
          <5>2. Noted.extra = <<BusByte>>
            BY <1>3, <1>4, <1>7, <2>1, <2>7, <4>2
          <5>3. Append(Part(Shown), BusByte) = Part(Shown) \o <<BusByte>>
            BY <1>5, <2>7, <3>3, AppendIsConcat
          <5>4. cycle = Fetches + 1 /\ EncLen = Fetches
            BY <2>2, <2>7, <4>2
          <5>5. cycle >= Fetches + 1
            BY <1>2, <5>4
          <5> QED  BY <3>4, <5>1, <5>2, <5>3, <5>4, <5>5 DEF Part
        <4> QED  BY <4>1, <4>2
      <3> QED  BY <1>3, <1>5, <1>7, <2>3, <2>4, <2>7, <3>1, <3>2, <3>4, <3>5, <3>6
    <2> QED  BY <2>5, <2>6, <2>7
  <1> QED  BY <1>6, <1>7

(* On to the next cycle of the instruction.                                *)
LEMMA CycleKept ==
  ASSUME Edge, Ends, t' = 1, cycle' = cycle + 1, Onward, cycle < Cycles,
         IsFetch' <=> cycle + 1 <= Fetches,
         IsOperand' <=> Fetches < cycle + 1 /\ cycle + 1 <= EncLen
  PROVE  Held' /\ NotHeld' /\ Operand' /\ HoldsReport'
  <1>1. /\ CpuOK /\ Types /\ Watched /\ Held /\ NotHeld
    BY DEF Edge, Watched
  <1>2. /\ Fetches \in {1, 2} /\ cycle \in Nat /\ cycle >= 1 /\ EncLen \in Fetches .. 4 /\ EncLen \in Nat
        /\ IsFetch <=> cycle <= Fetches
        /\ Cycles \in Nat
    BY EdgeFacts
  <1>3. /\ insn' = insn /\ Fetches' = Fetches /\ EncLen' = EncLen
        /\ Encoding(insn)' = Encoding(insn)
    BY DEF Onward, Encoding
  <1>4. /\ track' = Noted /\ edges' = edges + 1
        /\ ~IsFetch' => (continues' <=> continues)
        /\ IsFetch' => (continues' <=> Belongs')
        /\ IsFetch => stray' = stray
        /\ ~IsFetch /\ track.held => ~stray'
    <2>1. ~(IsFetch /\ t = 3) /\ cycle # Cycles /\ t # 1
      BY <1>2 DEF Ends
    <2> QED  BY <1>2, <2>1, Watching DEF Ends
  <1>5. /\ track.held =>
             /\ curr'.bytes = (track.lead \o SubSeq(Encoding(insn), track.skip + 1, Own)) \o Noted.extra
             /\ GoesOn /\ curr.startAddr = track.addr /\ curr.m1Type = track.kind
             /\ curr.hc = edges
             /\ Noted.extra # <<>> => cycle >= Fetches + 1 /\ EncLen = Fetches
        /\ ~track.held => curr'.bytes = <<>>
        /\ inOpRd' <=> stray'
        /\ prev'.bytes = <<>> /\ due' = Empty
        /\ stray' /\ track.held => IsFetch
        /\ Noted \in TrackSet /\ Noted.lead = track.lead /\ Noted.skip = track.skip
        /\ Noted.held = track.held /\ Noted.addr = track.addr /\ Noted.kind = track.kind
        /\ IsFetch => multicycle' = HasMoreMCycles
        /\ ~IsFetch => multicycle' = multicycle
    BY EndOfCycle
  <1>6. Shown' = Own
    <2>1. CASE IsFetch'
      BY <1>2, <2>1 DEF Shown, Own
    <2>2. CASE ~IsFetch'
      BY <1>2, <1>3, <2>2 DEF Shown, Own
    <2> QED  BY <2>1, <2>2
  <1>7. cycle' # 1 /\ cycle' > 1 /\ (Ahead' <=> IsFetch')
    BY <1>2 DEF Ahead
  <1>8. ASSUME track.held PROVE Begins' /\ Extra' /\ Holds' /\ Alone' /\ Joined'
    <2>1. Begins /\ Extra /\ Alone /\ Joined
      BY <1>1, <1>8 DEF Held
    <2>2. Begins'
      <3>1. ~(cycle = 1 /\ Ahead)
        BY <1>2 DEF Ahead, Ends
      <3>2. CASE track.lead = <<>> /\ track.skip = 0
        BY <1>4, <1>5, <1>7, <3>2 DEF Begins
      <3>3. CASE track.lead = <<>> /\ track.skip = 1 /\ Fetches = 2 /\ cycle > 1
        <4>1. cycle' # 2
          BY <1>2, <3>3
        <4> QED  BY <1>3, <1>4, <1>5, <1>7, <3>3, <4>1 DEF Begins
      <3>4. CASE /\ Len(track.lead) = 1 /\ track.skip = 0
                 /\ Fetches = 2 => cycle = 1 \/ (cycle = 2 /\ t <= 3)
        <4>1. Fetches = 2 => cycle' = 2 /\ t' <= 3
          <5>1. SUFFICES ASSUME Fetches = 2 PROVE cycle = 1
            OBVIOUS
          <5>2. ~(cycle = 2 /\ t <= 3)
            BY <1>2, <5>1 DEF Ends
          <5> QED  BY <3>4, <5>1, <5>2
        <4> QED  BY <1>3, <1>4, <1>5, <1>7, <3>4, <4>1 DEF Begins
      <3> QED  BY <2>1, <3>1, <3>2, <3>3, <3>4 DEF Begins
    <2>3. Extra'
      <3>1. stray' => cycle' <= Fetches' + 1
        BY <1>2, <1>3, <1>4, <1>8
      <3>2. track'.extra # <<>> => ~stray' /\ cycle' > Fetches' + 1 /\ EncLen' = Fetches'
        <4>1. SUFFICES ASSUME Noted.extra # <<>> PROVE ~stray' /\ cycle' > Fetches' + 1 /\ EncLen' = Fetches'
          BY <1>4
        <4>2. cycle >= Fetches + 1 /\ EncLen = Fetches
          BY <1>5, <1>8, <4>1
        <4> QED  BY <1>2, <1>3, <1>4, <1>8, <4>2
      <3> QED  BY <3>1, <3>2 DEF Extra
    <2>4. Holds'
      <3>1. Part(Shown)' = track.lead \o SubSeq(Encoding(insn), track.skip + 1, Own)
        BY <1>3, <1>4, <1>5, <1>6 DEF Part
      <3> QED  BY <1>4, <1>5, <1>8, <3>1 DEF Holds, GoesOn
    <2>5. Alone'
      <3>1. multicycle'
        <4>1. CASE IsFetch
          BY <1>5, <4>1 DEF HasMoreMCycles
        <4>2. CASE ~IsFetch
          BY <1>5, <2>1, <4>2 DEF Alone
        <4> QED  BY <4>1, <4>2
      <3> QED  BY <1>7, <3>1 DEF Alone
    <2>6. Joined'
      <3>1. CASE IsFetch'
        BY <1>4, <1>7, <3>1 DEF Joined
      <3>2. CASE ~IsFetch'
        <4>1. SUFFICES ASSUME continues
                       PROVE  track.lead # <<>> \/ (Fetches = 2 /\ track.skip = 0)
          BY <1>3, <1>4, <1>5, <1>7, <3>2 DEF Joined
        <4>2. ~Ahead
          BY DEF Ahead, Ends
        <4> QED  BY <2>1, <4>1, <4>2 DEF Joined
      <3> QED  BY <3>1, <3>2
    <2> QED  BY <2>2, <2>3, <2>4, <2>5, <2>6
  <1>9. Held' /\ NotHeld'
    BY <1>4, <1>5, <1>8 DEF Held, NotHeld
  <1>10. Operand'
    BY <1>5 DEF Operand
  <1>11. HoldsReport'
    BY <1>5 DEF HoldsReport
  <1> QED  BY <1>9, <1>10, <1>11

LEMMA OneByteLeft ==
  \A a, e, x \in Seq(Byte), s, n \in Nat :
    s < n /\ n <= Len(e) /\ Len((a \o SubSeq(e, s + 1, n)) \o x) = 1
    => a = <<>> /\ n = s + 1 /\ ((a \o SubSeq(e, s + 1, n)) \o x)[1] = e[s + 1]
  <1> TAKE a, e, x \in Seq(Byte), s, n \in Nat
  <1> HAVE s < n /\ n <= Len(e) /\ Len((a \o SubSeq(e, s + 1, n)) \o x) = 1
  <1>0. PICK y : y = (a \o SubSeq(e, s + 1, n)) \o x
    OBVIOUS
  <1>1. PICK z : z = a \o SubSeq(e, s + 1, n)
    OBVIOUS
  <1>2. s <= n
    OBVIOUS
  <1>3. z \in Seq(Byte) /\ Len(z) = Len(a) + n - s /\ z[Len(a) + 1] = e[s + 1]
    BY <1>1, <1>2, Measured
  <1>4. y = z \o x
    BY <1>0, <1>1
  <1>5. /\ Len(z \o x) = Len(z) + Len(x)
        /\ \A i \in 1 .. Len(z) + Len(x) :
             (z \o x)[i] = IF i <= Len(z) THEN z[i] ELSE x[i - Len(z)]
    BY <1>3, ConcatProperties
  <1>6. Len(a) \in Nat /\ Len(x) \in Nat /\ Len(z) \in Nat
    BY <1>3
  <1>7. Len(a) = 0 /\ Len(z) = 1 /\ n = s + 1
    <2>1. ASSUME NEW b \in Nat, NEW c \in Nat, NEW d \in Nat, c = b + n - s, c + d = 1
          PROVE  b = 0 /\ c = 1 /\ n = s + 1
      BY <2>1
    <2>2. Len(z) + Len(x) = 1
      BY <1>0, <1>4, <1>5
    <2> QED  BY <1>3, <1>6, <2>1, <2>2
  <1>8. a = <<>>
    BY <1>7, EmptySeq
  <1>9. y[1] = z[1]
    <2>1. 1 \in 1 .. Len(z) + Len(x) /\ 1 <= Len(z)
      BY <1>6, <1>7
    <2> QED  BY <1>4, <1>5, <2>1
  <1> QED  BY <1>0, <1>3, <1>7, <1>8, <1>9

(* A lone byte that ends with an instruction, and is a prefix that the     *)
(* tracer would go on with, is a wasted one or an acknowledge cycle's.     *)
LEMMA LeftAlone ==
  ASSUME CpuOK, Types, Watched, enabled, track.held, Ends, cycle = Cycles,
         NEW y, y = (track.lead \o SubSeq(Encoding(insn), track.skip + 1, EncLen)) \o Noted.extra,
         Noted.extra \in Seq(Byte),
         ~IsFetch \/ insn.more
  PROVE  /\ Len(y) = 1 /\ y[1] \in Prefix =>
              \/ Acknowledges(insn) /\ (insn.data # <<>> \/ insn.more)
              \/ y[1] = "dd" /\ ShapeOf(insn) \in Wasted
         /\ continues => Len(y) # 1
  <1>1. Wellformed(insn) /\ cycle \in 1 .. Cycles /\ Tracing /\ Begins /\ Joined
    BY DEF CpuOK, Tracing, Watched, Held
  <1>2. /\ Fetches \in {1, 2} /\ EncLen = Fetches + Len(insn.operands) /\ EncLen \in Fetches .. 4
        /\ Cycles = EncLen + Len(insn.data) /\ Cycles \in Nat /\ EncLen \in Nat
        /\ Encoding(insn) \in Seq(Byte) /\ EncLen = Len(Encoding(insn))
        /\ \A k \in 1 .. Fetches : Encoding(insn)[k] = insn.fetch[k]
    BY <1>1, Sizes DEF EncLen
  <1>3. Len(insn.operands) \in Nat /\ Len(insn.data) \in Nat /\ insn.fetch[1] = Encoding(insn)[1]
    BY <1>1, <1>2 DEF Wellformed
  <1>4. /\ track.lead \in Seq(Byte) /\ track.skip \in {0, 1} /\ Len(track.lead) \in Nat
    BY <1>1, InTrace
  <1>5. ~Ahead /\ (IsFetch <=> cycle <= Fetches)
    BY Steps DEF Ends, Ahead
  <1>6. track.skip \in Nat /\ track.skip < EncLen
    <2>1. track.skip = 1 => Fetches = 2
      BY <1>1, <1>5 DEF Begins
    <2> QED  BY <1>2, <1>4, <2>1
  <1>9. ASSUME Len(y) = 1
        PROVE  /\ track.lead = <<>> /\ EncLen = track.skip + 1
               /\ y[1] = Encoding(insn)[track.skip + 1]
    <2>1. /\ track.lead \in Seq(Byte) /\ Encoding(insn) \in Seq(Byte) /\ track.skip \in Nat
          /\ EncLen \in Nat /\ track.skip < EncLen /\ EncLen <= Len(Encoding(insn))
      BY <1>2, <1>4, <1>6
    <2>2. /\ Noted.extra \in Seq(Byte)
          /\ y = (track.lead \o SubSeq(Encoding(insn), track.skip + 1, EncLen)) \o Noted.extra
      OBVIOUS
    <2>3. PICK a : a = track.lead
      OBVIOUS
    <2>4. PICK e : e = Encoding(insn)
      OBVIOUS
    <2>5. PICK x : x = Noted.extra
      OBVIOUS
    <2>6. PICK s : s = track.skip
      OBVIOUS
    <2>7. PICK n : n = EncLen
      OBVIOUS
    <2>8. /\ a \in Seq(Byte) /\ e \in Seq(Byte) /\ x \in Seq(Byte) /\ s \in Nat /\ n \in Nat
          /\ s < n /\ n <= Len(e)
      BY <2>1, <2>2, <2>3, <2>4, <2>5, <2>6, <2>7
    <2>9. y = (a \o SubSeq(e, s + 1, n)) \o x
      BY <2>2, <2>3, <2>4, <2>5, <2>6, <2>7
    <2>10. Len((a \o SubSeq(e, s + 1, n)) \o x) = 1
      BY <1>9, <2>9
    <2>11. a = <<>> /\ n = s + 1 /\ ((a \o SubSeq(e, s + 1, n)) \o x)[1] = e[s + 1]
      BY <2>8, <2>10, OneByteLeft
    <2> QED  BY <2>3, <2>4, <2>6, <2>7, <2>9, <2>11
  <1>10. ASSUME Len(y) = 1, y[1] \in Prefix
         PROVE  \/ Acknowledges(insn) /\ (insn.data # <<>> \/ insn.more)
                \/ y[1] = "dd" /\ ShapeOf(insn) \in Wasted
    <2>1. /\ track.lead = <<>> /\ EncLen = track.skip + 1
          /\ Encoding(insn)[track.skip + 1] \in Prefix /\ y[1] = Encoding(insn)[track.skip + 1]
      BY <1>9, <1>10
    <2>2. insn.data # <<>> => Len(insn.data) # 0
      BY <1>1, EmptySeq DEF Wellformed
    <2>3. CASE track.skip = 0
      <3>1. EncLen = 1 /\ Fetches = 1 /\ Len(insn.operands) = 0 /\ insn.fetch[1] \in Prefix
        BY <1>2, <1>3, <2>1, <2>3
      <3>2. Len(insn.data) # 0 \/ insn.more
        BY <1>2, <1>5, <3>1
      <3>3. \/ Acknowledges(insn)
            \/ insn.fetch[1] = "dd" /\ ShapeOf(insn) \in Wasted
        BY <1>1, <3>1, <3>2 DEF Wellformed, Fetches
      <3>4. Len(insn.data) # 0 => insn.data # <<>>
        OBVIOUS
      <3> QED  BY <1>3, <2>1, <2>3, <3>2, <3>3, <3>4
    <2>4. CASE track.skip = 1
      <3>1. Fetches = 2
        BY <1>1, <1>5, <2>4 DEF Begins
      <3>2. EncLen = 2 /\ Len(insn.operands) = 0 /\ insn.fetch[2] \in Prefix
        <4>1. EncLen = 2
          BY <2>1, <2>4
        <4>2. Encoding(insn)[2] = insn.fetch[2]
          BY <1>2, <3>1
        <4> QED  BY <1>2, <1>3, <2>1, <2>4, <3>1, <4>1, <4>2
      <3>3. Len(insn.data) # 0 \/ insn.more
        BY <1>2, <1>5, <3>1, <3>2
      <3>4. insn.fetch[2] # "ed" /\ insn.fetch[2] # "dd" /\ insn.fetch[2] # "cb"
        BY <1>1, <3>1, <3>2, <3>3 DEF Wellformed, Fetches
      <3> QED  BY <3>2, <3>4 DEF Prefix
    <2> QED  BY <1>4, <2>3, <2>4
  <1>11. ASSUME continues PROVE Len(y) # 1
    <2>1. SUFFICES ASSUME Len(y) = 1 PROVE FALSE
      OBVIOUS
    <2>2. track.lead = <<>> /\ EncLen = track.skip + 1
      BY <1>9, <2>1
    <2>3. Fetches = 2 /\ track.skip = 0
      BY <1>1, <1>5, <1>11, <2>2 DEF Joined
    <2> QED  BY <1>2, <2>2, <2>3
  <1> QED  BY <1>10, <1>11

(* On to the next instruction.                                             *)
LEMMA InsnKept ==
  ASSUME Edge, Ends, t' = 1, cycle' = 1, cycle = Cycles, IsFetch', ~IsOperand',
         IsFetch => Fetches = Cycles,
         ShapeOf(insn) \in Wasted => insn'.fetch[1] \in {"dd", "ed"}
  PROVE  Held' /\ NotHeld' /\ Operand' /\ HoldsReport'
  <1>1. /\ CpuOK /\ CpuOK' /\ Types /\ Watched /\ Held /\ NotHeld /\ enabled
    BY EdgeFacts DEF Edge, Watched
  <1>2. /\ EncLen \in Nat /\ Cycles = EncLen + Len(insn.data) /\ Len(insn.data) \in Nat
        /\ Fetches \in Nat /\ EncLen \in Fetches .. 4 /\ EncLen = Len(Encoding(insn))
    BY EdgeFacts DEF EncLen
  <1>3. Own = EncLen
    BY <1>2 DEF Own
  <1>4. /\ track.held =>
             /\ curr'.bytes = (track.lead \o SubSeq(Encoding(insn), track.skip + 1, Own)) \o Noted.extra
             /\ curr'.bytes # <<>>
             /\ GoesOn /\ curr.startAddr = track.addr /\ curr.m1Type = track.kind
             /\ curr.hc = edges
        /\ ~track.held => curr'.bytes = <<>>
        /\ inOpRd' <=> stray'
        /\ prev'.bytes = <<>> /\ due' = Empty
        /\ Noted \in TrackSet /\ Noted.lead = track.lead /\ Noted.skip = track.skip
        /\ Noted.held = track.held /\ Noted.addr = track.addr /\ Noted.kind = track.kind
        /\ IsFetch => multicycle' = HasMoreMCycles
        /\ ~IsFetch => multicycle' = multicycle
    BY EndOfCycle
  <1>5. /\ track' = Closed(Noted) /\ edges' = edges + 1
        /\ continues' <=> Belongs'
    <2>1. ~(IsFetch /\ t = 3)
      BY DEF Ends
    <2> QED  BY <2>1, Watching
  <1>6. /\ track'.held = track.held /\ track'.addr = track.addr /\ track'.kind = track.kind
        /\ track'.lead = Told(Noted) /\ track'.skip = 0 /\ track'.extra = <<>>
        /\ track'.ack <=> Acknowledges(insn) /\ (insn.data # <<>> \/ insn.more)
    BY <1>1, <1>4, <1>5, ClosedFields
  <1>7. Told(Noted) = (track.lead \o SubSeq(Encoding(insn), track.skip + 1, EncLen)) \o Noted.extra
    BY <1>2, <1>4 DEF Told
  <1>8. Ahead' /\ Shown' = 0
    BY DEF Ahead, Shown
  <1>9. ASSUME track.held PROVE Begins' /\ Extra' /\ Holds' /\ Alone' /\ Joined'
    <2>1. curr'.bytes = track'.lead /\ track'.lead # <<>>
      BY <1>3, <1>4, <1>6, <1>7, <1>9
    <2>2. Begins'
      BY <1>6, <1>8, <2>1 DEF Begins
    <2>3. Extra'
      <3>1. (Wellformed(insn) => Fetches \in {1, 2})'
        BY Sizes, PTL
      <3>2. cycle' <= Fetches' + 1
        BY <1>1, <3>1 DEF CpuOK
      <3> QED  BY <1>6, <3>2 DEF Extra
    <2>4. Holds'
      <3>1. curr'.bytes \in Seq(Byte)
        BY EdgeFacts DEF TraceSet
      <3>2. Part(0)' = track'.lead \o SubSeq(Encoding(insn)', 0 + 1, 0)
        BY <1>6 DEF Part
      <3>3. SubSeq(Encoding(insn)', 0 + 1, 0) = <<>>
        BY SubSeqEmpty
      <3>4. track'.lead \o <<>> = track'.lead
        BY <2>1, <3>1, ConcatEmptySeq
      <3>5. Part(Shown)' = track'.lead
        BY <1>8, <3>2, <3>3, <3>4 DEF Part
      <3>6. curr'.bytes = Part(Shown)' \o track'.extra
        BY <1>6, <2>1, <3>4, <3>5
      <3> QED  BY <1>4, <1>5, <1>6, <1>9, <3>6 DEF Holds, GoesOn
    <2>5. multicycle' => ~IsFetch \/ insn.more
      <3>1. ~(cycle < Cycles)
        BY <1>2
      <3> QED  BY <1>4, <3>1, Zenon DEF HasMoreMCycles
    <2>6. Alone'
      <3>1. Alone
        BY <1>1, <1>9 DEF Held
      <3>2. track'.ack => multicycle'
        <4>1. CASE IsFetch
          <5>1. Len(insn.data) = 0
            BY <1>2, <4>1
          <5>2. insn.data = <<>>
            BY <1>1, <5>1, EmptySeq DEF CpuOK, Wellformed
          <5> QED  BY <1>4, <1>6, <4>1, <5>2 DEF HasMoreMCycles
        <4>2. CASE ~IsFetch
          BY <1>4, <3>1, <4>2 DEF Alone
        <4> QED  BY <4>1, <4>2
      <3>3. ASSUME multicycle', ~track'.ack, Lone(track'.lead)
            PROVE  track'.lead[1] = "dd" /\ insn'.fetch[1] \in {"dd", "ed"}
        <4>1. Len(track'.lead) = 1 /\ track'.lead[1] \in Prefix
          BY <3>3 DEF Lone
        <4>2. /\ track'.lead = (track.lead \o SubSeq(Encoding(insn), track.skip + 1, EncLen)) \o Noted.extra
              /\ Noted.extra \in Seq(Byte)
          BY <1>4, <1>6, <1>7 DEF TrackSet
        <4>3. \/ Acknowledges(insn) /\ (insn.data # <<>> \/ insn.more)
              \/ track'.lead[1] = "dd" /\ ShapeOf(insn) \in Wasted
          BY <1>1, <1>9, <2>5, <3>3, <4>1, <4>2, LeftAlone
        <4> QED  BY <1>6, <3>3, <4>3
      <3> QED  BY <1>8, <3>2, <3>3 DEF Alone, Lone
    <2>7. Joined'
      BY <1>5, <1>8 DEF Joined
    <2> QED  BY <2>2, <2>3, <2>4, <2>6, <2>7
  <1>10. Held' /\ NotHeld'
    BY <1>4, <1>6, <1>9 DEF Held, NotHeld
  <1>11. Operand'
    BY <1>4 DEF Operand
  <1>12. HoldsReport'
    BY <1>4 DEF HoldsReport
  <1> QED  BY <1>10, <1>11, <1>12

-----------------------------------------------------------------------------
(* Invariance. *)

LEMMA EdgeInv == ASSUME IInv, ClockEdge PROVE IInv'
  <1>1. CpuOK /\ Types /\ Watched /\ CpuStep /\ NoteContinues /\ enabled' = enabled
    BY DEF IInv, ClockEdge
  <1>2. Types'
    BY <1>1, TypesKept DEF Next
  <1>3. CpuOK' /\ Places
    BY <1>1, Placing
  <1>4. Watched'
    <2>1. CASE ~enabled
      <3>1. track' = track /\ due' = due /\ stray' = stray
        BY <2>1 DEF ClockEdge
      <3> QED  BY <1>1, <2>1, <3>1 DEF Watched
    <2>2. CASE enabled
      <3>1. Edge
        BY <1>1, <2>2 DEF Edge, ClockEdge
      <3>2. SUFFICES Held' /\ NotHeld' /\ Operand' /\ HoldsReport'
        BY <1>1, <2>2 DEF Watched
      <3>3. CASE /\ Onward /\ t' = t + 1 /\ cycle' = cycle
                 /\ IsFetch' <=> IsFetch
                 /\ IsOperand' <=> IsOperand
                 /\ IsFetch => t \in {1, 2, 3}
                 /\ ~IsFetch => t = 1
        <4>1. CASE (IsFetch /\ t \in {1, 2}) \/ (~IsFetch /\ t = 1)
          BY <3>1, <3>3, <4>1, WithinKept
        <4>2. CASE IsFetch /\ t = 3
          <5>1. ~IsOperand
            BY <4>2 DEF IsOperand
          <5>2. CASE Belongs
            BY <3>1, <3>3, <4>2, <5>1, <5>2, BelongingKept
          <5>3. CASE ~Belongs
            BY <3>1, <3>3, <4>2, <5>1, <5>3, OpeningKept
          <5> QED  BY <5>2, <5>3
        <4> QED  BY <3>3, <4>1, <4>2
      <3>4. CASE /\ Onward /\ t' = 1 /\ cycle' = cycle + 1
                 /\ cycle < Cycles
                 /\ IsFetch' <=> cycle + 1 <= Fetches
                 /\ IsOperand' <=> Fetches < cycle + 1 /\ cycle + 1 <= EncLen
                 /\ IsFetch => t = 4
                 /\ ~IsFetch => t = 2
        <4>1. Ends
          BY <3>4 DEF Ends
        <4> QED  BY <3>1, <3>4, <4>1, CycleKept
      <3>5. CASE /\ t' = 1 /\ cycle' = 1
                 /\ cycle = Cycles
                 /\ IsFetch' /\ ~IsOperand'
                 /\ IsFetch => t = 4 /\ Fetches = Cycles
                 /\ ~IsFetch => t = 2
                 /\ ShapeOf(insn) \in Wasted => insn'.fetch[1] \in {"dd", "ed"}
        <4>1. Ends
          BY <3>5 DEF Ends
        <4> QED  BY <3>1, <3>5, <4>1, InsnKept
      <3> QED  BY <1>3, <3>3, <3>4, <3>5 DEF Places
    <2> QED  BY <2>1, <2>2
  <1> QED  BY <1>2, <1>3, <1>4 DEF IInv

LEMMA InitInv == ASSUME Init PROVE IInv
  <1>1. /\ insn \in Placed(Insn) /\ cycle = 1 /\ t = 1 /\ enabled = TRUE
        /\ curr = Empty /\ prev = Empty /\ inOpRd = FALSE /\ multicycle = FALSE
        /\ track = NoTrack /\ due = Empty /\ edges = 0
        /\ stray = FALSE /\ continues = FALSE
    BY DEF Init
  <1>2. Wellformed(insn) /\ insn.addr \in Nat /\ ShapeOf(insn) \in Insn
    BY <1>1, PlacedShapes
  <1>3. /\ Fetches \in {1, 2} /\ EncLen \in Fetches .. 4 /\ Cycles \in Nat /\ Cycles >= EncLen
    BY <1>2, Sizes
  <1>4. CpuOK
    BY <1>1, <1>2, <1>3 DEF CpuOK, StepsOfCycle
  <1>5. Types
    <2>1. /\ curr \in TraceSet /\ Len(curr.bytes) <= 4 /\ prev \in TraceSet /\ Len(prev.bytes) <= 4
      BY <1>1, EmptyFields
    <2>2. edges \in Nat /\ track \in TrackSet
      BY <1>1, NoTrackFields
    <2>3. /\ enabled \in BOOLEAN /\ inOpRd \in BOOLEAN /\ multicycle \in BOOLEAN
          /\ stray \in BOOLEAN /\ continues \in BOOLEAN
      BY <1>1, Zenon
    <2> QED  BY <2>1, <2>2, <2>3 DEF Types
  <1>6. Held /\ NotHeld /\ HoldsReport
    BY <1>1, EmptyFields, NoTrackFields DEF Held, NotHeld, HoldsReport
  <1>7. Operand
    BY <1>1 DEF Operand
  <1> QED  BY <1>1, <1>4, <1>5, <1>6, <1>7 DEF IInv, Watched

LEMMA StutterInv == ASSUME IInv, UNCHANGED vars PROVE IInv'
  <1>1. /\ insn' = insn /\ cycle' = cycle /\ t' = t /\ enabled' = enabled
        /\ curr' = curr /\ prev' = prev /\ inOpRd' = inOpRd /\ multicycle' = multicycle
        /\ track' = track /\ edges' = edges /\ due' = due /\ stray' = stray
        /\ continues' = continues
    BY DEF vars, cpu, tracer, history
  <1>2. CpuOK'
    BY <1>1 DEF IInv, CpuOK, Cycles, StepsOfCycle, IsFetch, Fetches, Encoding, ShapeOf,
                Wellformed, Acknowledges
  <1>3. Types'
    BY <1>1 DEF IInv, Types
  <1>4. /\ Fetches' = Fetches /\ EncLen' = EncLen /\ Encoding(insn)' = Encoding(insn)
    BY <1>1 DEF Fetches, EncLen, Encoding
  <1>5. /\ IsFetch' <=> IsFetch
        /\ Ahead' <=> Ahead
        /\ IsOperand' <=> IsOperand
        /\ Shown' = Shown /\ PcOfFetch' = PcOfFetch
    BY <1>1, <1>4 DEF IsFetch, Ahead, IsOperand, Shown, PcOfFetch
  <1>6. Belongs' <=> Belongs
    BY <1>1 DEF Belongs, Acknowledges
  <1>7. Begins' <=> Begins
    BY <1>1, <1>4, <1>5 DEF Begins
  <1>8. (Extra' <=> Extra) /\ (Alone' <=> Alone) /\ (Joined' <=> Joined)
    BY <1>1, <1>4, <1>5, <1>6 DEF Extra, Alone, Joined
  <1>9. Holds' <=> Holds
    BY <1>1, <1>4, <1>5 DEF Holds, Part
  <1>10. (NotHeld' <=> NotHeld) /\ (Operand' <=> Operand) /\ (HoldsReport' <=> HoldsReport)
    BY <1>1, <1>5 DEF NotHeld, Operand, HoldsReport
  <1>11. Watched'
    BY <1>1, <1>7, <1>8, <1>9, <1>10 DEF IInv, Watched, Held
  <1> QED  BY <1>2, <1>3, <1>11 DEF IInv

(* Assigning the same value again is a stutter.                            *)
LEMMA SwitchInv == ASSUME IInv, NEW v \in BOOLEAN, SetEnabled(v) PROVE IInv'
  <1>1. insn' = insn /\ cycle' = cycle /\ t' = t /\ enabled' = v /\ enabled \in BOOLEAN
    BY DEF SetEnabled, cpu, IInv, Types
  <1>2. CASE v = enabled
    <2>1. UNCHANGED vars
      BY <1>1, <1>2 DEF SetEnabled, vars
    <2> QED  BY <2>1, StutterInv
  <1>3. CASE v # enabled
    <2>1. Types'
      BY TypesKept DEF IInv, Next
    <2>2. CpuOK'
      BY <1>1 DEF IInv, CpuOK, Cycles, StepsOfCycle, IsFetch, Fetches, Encoding, ShapeOf,
                  Wellformed, Acknowledges
    <2>3. track' = NoTrack /\ due' = Empty /\ stray' = FALSE
      BY <1>3 DEF SetEnabled, Forget
    <2>4. track'.held = FALSE
      BY <2>3, NoTrackFields
    <2>5. Watched'
      <3>1. CASE ~v
        BY <1>1, <2>3, <2>4, <3>1 DEF Watched
      <3>2. CASE v
        <4>1. curr' = Empty /\ prev' = Empty /\ inOpRd' = FALSE
          BY <1>1, <1>3, <3>2 DEF SetEnabled, ResetBuffers
        <4>2. Held' /\ NotHeld' /\ HoldsReport'
          BY <2>3, <2>4, <4>1, EmptyFields DEF Held, NotHeld, HoldsReport
        <4>3. Operand'
          BY <2>3, <2>4, <4>1 DEF Operand
        <4> QED  BY <1>1, <3>2, <4>2, <4>3 DEF Watched
      <3> QED  BY <3>1, <3>2
    <2> QED  BY <2>1, <2>2, <2>5 DEF IInv
  <1> QED  BY <1>2, <1>3

LEMMA StepInv == ASSUME IInv, [Next]_vars PROVE IInv'
  BY EdgeInv, SwitchInv, StutterInv DEF Next

LEMMA Invariance == Spec => []IInv
  BY InitInv, StepInv, PTL DEF Spec
-----------------------------------------------------------------------------
(* What is reported. *)

(* A report says what the bus showed, byte for byte and half cycle for     *)
(* half cycle, at the first M1_T3_1 after the trace has ended and never    *)
(* again, and there is one for every trace that ends; whatever             *)
(* instructions follow each other, whatever byte is on the bus in an       *)
(* acknowledge cycle, and wherever the tracer was turned on (clockEdge).   *)
THEOREM ReportsTell == Spec => ReportsAreExact
  <1>1. ASSUME IInv, enabled
        PROVE  /\ Reports <=> NextStep = "M1_T3_1" /\ due # Empty
               /\ Reports => prev = due
    <2>1. HoldsReport /\ CpuOK
      BY <1>1 DEF IInv, Watched
    <2>2. NextStep = "M1_T3_1" <=> IsFetch /\ t = 4
      BY <2>1, Steps
    <2>3. CASE IsFetch /\ t = 4 /\ due # Empty
      BY <1>1, <2>1, <2>2, <2>3 DEF HoldsReport, Reports
    <2>4. CASE ~(IsFetch /\ t = 4 /\ due # Empty)
      <3>1. prev.bytes = <<>> /\ due = Empty
        BY <2>1, <2>4 DEF HoldsReport
      <3> QED  BY <3>1 DEF Reports
    <2> QED  BY <2>3, <2>4
  <1>2. ASSUME IInv
        PROVE  enabled /\ edges' # edges =>
                 /\ Reports <=> NextStep = "M1_T3_1" /\ due # Empty
                 /\ Reports => prev = due
    BY <1>1, <1>2
  <1> QED  BY <1>2, Invariance, PTL DEF ReportsAreExact

(* The buffers, the flags and the place of the CPU have their types, and   *)
(* no trace has more bytes than bytes = new Array(4) holds (z80dbg.ts).    *)
THEOREM TypeCorrect == Spec => []TypeOK
  <1>1. ASSUME IInv PROVE TypeOK
    <2>1. CpuOK /\ Types
      BY <1>1 DEF IInv
    <2>2. ASSUME NEW x \in TraceSet, Len(x.bytes) <= 4 PROVE TraceType(x)
      BY <2>2 DEF TraceType, TraceSet, Kinds
    <2> QED  BY <2>1, <2>2 DEF TypeOK, CpuOK, Types
  <1> QED  BY <1>1, Invariance, PTL

-----------------------------------------------------------------------------
(* The tracer of the run loop. *)

(* An edge moves on within the block, or to the first half cycle of the    *)
(* next.                                                                   *)
LEMMA Blocks ==
  ASSUME CpuOK, CpuStep
  PROVE  /\ \/ /\ BlockPos + 1 < BlockLength /\ ~(t' = 1 /\ IsFetch')
               /\ BlockPos' = BlockPos + 1 /\ BlockLength' = BlockLength /\ BlockPc' = BlockPc
            \/ /\ BlockPos + 1 = BlockLength /\ t' = 1 /\ IsFetch'
               /\ BlockPos' = 0 /\ BlockLength' \in Nat \ (0 .. 3) /\ BlockPc' \in Nat
         /\ BlockPos = 2 <=> IsFetch /\ t = 3
         /\ BlockPos = 3 <=> IsFetch /\ t = 4
  <1>1. Places /\ CpuOK'
    BY Placing
  <1>2. /\ Wellformed(insn) /\ cycle \in 1 .. Cycles /\ insn.addr \in Nat
    BY DEF CpuOK
  <1>3. /\ Cycles \in Nat /\ Fetches \in {1, 2} /\ Fetches \in Nat /\ EncLen \in Fetches .. 4 /\ Cycles >= EncLen
    BY <1>2, Sizes
  <1>4. /\ IsFetch => t \in {1, 2, 3, 4}
        /\ ~IsFetch => t \in {1, 2}
        /\ IsFetch <=> cycle <= Fetches
    BY Steps
  <1>5. cycle \in Nat /\ cycle >= 1 /\ cycle <= Cycles /\ Cycles >= Fetches
    BY <1>2, <1>3
  <1>6. BlockPos = 2 <=> IsFetch /\ t = 3
    BY <1>3, <1>4, <1>5 DEF BlockPos
  <1>7. BlockPos = 3 <=> IsFetch /\ t = 4
    BY <1>3, <1>4, <1>5 DEF BlockPos
  <1>8. CASE /\ Onward /\ t' = t + 1 /\ cycle' = cycle
             /\ IsFetch' <=> IsFetch
             /\ IsFetch => t \in {1, 2, 3}
             /\ ~IsFetch => t = 1
    <2>1. BlockLength' = BlockLength /\ BlockPc' = BlockPc
      BY <1>8 DEF BlockLength, BlockPc, Onward
    <2>2. ~(t' = 1)
      BY <1>4, <1>8
    <2>3. BlockPos' = BlockPos + 1
      BY <1>3, <1>4, <1>5, <1>8 DEF BlockPos, Onward
    <2>4. BlockPos + 1 < BlockLength
      BY <1>3, <1>4, <1>5, <1>8 DEF BlockPos, BlockLength
    <2> QED  BY <1>6, <1>7, <2>1, <2>2, <2>3, <2>4
  <1>9. CASE /\ Onward /\ t' = 1 /\ cycle' = cycle + 1
             /\ cycle < Cycles
             /\ IsFetch' <=> cycle + 1 <= Fetches
             /\ IsFetch => t = 4
             /\ ~IsFetch => t = 2
    <2>1. CASE cycle < Fetches
      <3>1. cycle = 1 /\ Fetches = 2 /\ IsFetch /\ IsFetch'
        BY <1>3, <1>4, <1>5, <1>9, <2>1
      <3>2. BlockPos + 1 = BlockLength /\ BlockPos' = 0
        BY <1>9, <3>1 DEF BlockPos, BlockLength
      <3>3. BlockLength' \in Nat \ (0 .. 3)
        BY <1>3, <1>5, <1>9, <3>1 DEF BlockLength, Onward
      <3>4. BlockPc' \in Nat
        BY <1>2, <1>9, <3>1 DEF BlockPc, Onward
      <3> QED  BY <1>6, <1>7, <1>9, <3>1, <3>2, <3>3, <3>4
    <2>2. CASE ~(cycle < Fetches)
      <3>1. ~IsFetch' /\ ~(cycle' < Fetches')
        BY <1>3, <1>5, <1>9, <2>2 DEF Onward
      <3>2. BlockLength' = BlockLength /\ BlockPc' = BlockPc
        BY <1>9, <2>2, <3>1 DEF BlockLength, BlockPc, Onward
      <3>4. BlockPos' = BlockPos + 1
        BY <1>3, <1>4, <1>5, <1>9, <2>2, <3>1 DEF BlockPos, Onward
      <3>5. BlockPos + 1 < BlockLength
        BY <1>3, <1>4, <1>5, <1>9, <2>2 DEF BlockPos, BlockLength
      <3> QED  BY <1>6, <1>7, <3>1, <3>2, <3>4, <3>5
    <2> QED  BY <2>1, <2>2
  <1>10. CASE /\ t' = 1 /\ cycle' = 1
              /\ cycle = Cycles
              /\ IsFetch'
              /\ IsFetch => t = 4 /\ Fetches = Cycles
              /\ ~IsFetch => t = 2
    <2>2. BlockPos' = 0
      BY <1>10 DEF BlockPos
    <2>3. BlockPos + 1 = BlockLength
      BY <1>3, <1>4, <1>5, <1>10 DEF BlockPos, BlockLength
    <2>4. (CpuOK => Wellformed(insn) /\ insn.addr \in Nat)'
      BY DEF CpuOK
    <2>5. (Wellformed(insn) => /\ Fetches \in {1, 2} /\ EncLen \in Fetches .. 4
                               /\ Cycles \in Nat /\ Cycles >= EncLen)'
      BY Sizes, PTL
    <2>6. BlockLength' \in Nat \ (0 .. 3)
      BY <1>1, <2>4, <2>5 DEF BlockLength
    <2>7. BlockPc' \in Nat
      BY <1>1, <1>10, <2>4, <2>5 DEF BlockPc
    <2> QED  BY <1>6, <1>7, <1>10, <2>2, <2>3, <2>6, <2>7
  <1> QED  BY <1>1, <1>8, <1>9, <1>10 DEF Places

(* A block that goes on with the trace is the last that does.              *)
LEMMA Seconds ==
  ASSUME IInv, ClockEdge
  PROVE  /\ enabled => (track.held <=> curr.bytes # <<>>)
         /\ ~(t' = 1 /\ IsFetch') =>
              (continues' <=> continues /\ ~(enabled /\ IsFetch /\ t = 3 /\ curr.bytes = <<>>))
         /\ t' = 1 /\ IsFetch' /\ continues => ~continues'
  <1>1. CpuOK /\ Types /\ Watched /\ CpuStep /\ NoteContinues /\ enabled' = enabled
    BY DEF IInv, ClockEdge
  <1>2. continues \in BOOLEAN /\ track.held \in BOOLEAN
    BY <1>1, TrackTypes DEF Types
  <1>3. enabled => (track.held <=> curr.bytes # <<>>)
    <2>1. ASSUME enabled, track.held PROVE curr.bytes # <<>>
      BY <1>1, <2>1, InTrace DEF Tracing
    <2>2. ASSUME enabled, ~track.held PROVE curr.bytes = <<>>
      BY <1>1, <2>2 DEF Watched, NotHeld
    <2> QED  BY <2>1, <2>2
  <1>4. FetchShows <=> IsFetch /\ t = 3
    BY <1>1, Steps DEF FetchShows
  <1>5. ASSUME ~(t' = 1 /\ IsFetch')
        PROVE  continues' <=> continues /\ ~(enabled /\ IsFetch /\ t = 3 /\ curr.bytes = <<>>)
    <2>1. continues' = IF enabled /\ FetchShows THEN continues /\ track.held ELSE continues
      BY <1>1, <1>5, Zenon DEF NoteContinues
    <2>2. CASE enabled /\ FetchShows
      <3>1. continues' = (continues /\ track.held)
        BY <2>1, <2>2
      <3> QED  BY <1>2, <1>3, <1>4, <2>2, <3>1
    <2>3. CASE ~(enabled /\ FetchShows)
      BY <1>2, <1>4, <2>1, <2>3
    <2> QED  BY <2>2, <2>3
  <1>6. ASSUME t' = 1, IsFetch', continues PROVE ~continues'
    <2>1. SUFFICES ~Belongs'
      BY <1>1, <1>6 DEF NoteContinues
    <2>2. CASE ~enabled
      <3>1. track' = track
        BY <2>2 DEF ClockEdge
      <3>2. ~track'.held
        BY <1>1, <2>2, <3>1 DEF Watched
      <3> QED  BY <3>2 DEF Belongs
    <2>3. CASE enabled
      <3>1. Edge
        BY <1>1, <2>3 DEF Edge, ClockEdge
      <3>2. Places /\ Noted \in TrackSet /\ Noted.held = track.held /\ Noted.lead = track.lead
            /\ Noted.skip = track.skip
        BY <1>1, Placing, NotedFields DEF Types
      <3>3. /\ Fetches \in {1, 2} /\ cycle \in Nat /\ cycle >= 1
            /\ IsFetch => t \in {1, 2, 3, 4}
            /\ ~IsFetch => t \in {1, 2}
            /\ IsFetch <=> cycle <= Fetches
        BY <3>1, EdgeFacts
      <3>4. CASE ~track.held
        <4>1. ~Belongs
          BY <3>4 DEF Belongs
        <4>2. ~(IsFetch /\ t = 3)
          <5>1. t # 3
            BY <1>6, <3>2, <3>3 DEF Places
          <5> QED  BY <5>1
        <4>3. track' \in {Noted, Closed(Noted)}
          BY <3>1, <4>2, Watching
        <4>4. track'.held = track.held
          BY <1>1, <3>2, <4>3, ClosedFields
        <4> QED  BY <3>4, <4>4 DEF Belongs
      <3>5. CASE track.held
        <4>1. Joined
          BY <1>1, <2>3, <3>5 DEF Watched, Held
        <4>2. CASE /\ t' = 1 /\ cycle' = cycle + 1
                   /\ cycle < Cycles
                   /\ IsFetch' <=> cycle + 1 <= Fetches
                   /\ IsFetch => t = 4
                   /\ ~IsFetch => t = 2
          <5>1. cycle = 1 /\ IsFetch /\ t = 4 /\ cycle' = 2
            BY <1>6, <3>3, <4>2
          <5>2. track.lead # <<>>
            BY <1>6, <4>1, <5>1 DEF Joined, Ahead
          <5>3. track' = Noted
            <6>1. ~(IsFetch /\ t = 3) /\ cycle # Cycles
              BY <4>2, <5>1
            <6> QED  BY <3>1, <6>1, Watching
          <5> QED  BY <3>2, <5>1, <5>2, <5>3 DEF Belongs
        <4>3. CASE /\ t' = 1 /\ cycle' = 1
                   /\ cycle = Cycles
                   /\ IsFetch => t = 4 /\ Fetches = Cycles
                   /\ ~IsFetch => t = 2
          <5>1. Ends /\ ~(IsFetch /\ t = 3)
            BY <4>3 DEF Ends
          <5>2. track' = Closed(Noted)
            BY <3>1, <4>3, <5>1, Watching
          <5>3. /\ track'.lead = Told(Noted)
                /\ track'.ack <=> Acknowledges(insn) /\ (insn.data # <<>> \/ insn.more)
            BY <1>1, <3>2, <5>2, ClosedFields
          <5>4. Belongs' => track'.ack /\ Len(track'.lead) = 1
            BY <4>3 DEF Belongs
          <5>5. CASE ~IsFetch \/ insn.more
            <6>1. /\ Told(Noted) = (track.lead \o SubSeq(Encoding(insn), track.skip + 1, EncLen))
                                     \o Noted.extra
                  /\ Noted.extra \in Seq(Byte)
              BY <3>2 DEF Told, TrackSet, EncLen
            <6>2. Len(Told(Noted)) # 1
              BY <1>1, <1>6, <2>3, <3>5, <4>3, <5>1, <5>5, <6>1, LeftAlone
            <6> QED  BY <5>3, <5>4, <6>2
          <5>6. CASE IsFetch /\ ~insn.more
            <6>1. /\ EncLen \in Fetches .. 4 /\ Cycles = EncLen + Len(insn.data)
                  /\ Len(insn.data) \in Nat /\ EncLen \in Nat
              BY <3>1, EdgeFacts
            <6>2. Len(insn.data) = 0
              BY <3>3, <4>3, <5>6, <6>1
            <6>3. insn.data = <<>>
              BY <1>1, <6>2, EmptySeq DEF CpuOK, Wellformed
            <6> QED  BY <5>3, <5>4, <5>6, <6>3
          <5> QED  BY <5>5, <5>6
        <4>4. t' # t + 1
          BY <1>6, <3>3
        <4> QED  BY <3>2, <4>2, <4>3, <4>4 DEF Places
      <3> QED  BY <3>4, <3>5
    <2> QED  BY <2>2, <2>3
  <1> QED  BY <1>3, <1>5, <1>6

(* The hooks move the buffers, being empty or not, as Cpu!Trace does.      *)
LEMMA Buffers ==
  ASSUME IInv, ClockEdge
  PROVE  IF enabled /\ BlockPos = 2 /\ ~(continues /\ curr.bytes # <<>>)
           THEN (prev'.bytes # <<>> <=> curr.bytes # <<>>) /\ curr'.bytes # <<>>
           ELSE /\ prev'.bytes # <<>> <=> prev.bytes # <<>> /\ ~(enabled /\ BlockPos = 3)
                /\ curr'.bytes # <<>> <=> curr.bytes # <<>>
  <1>1. CpuOK /\ Types /\ Watched /\ CpuStep /\ NoteContinues /\ enabled' = enabled
    BY DEF IInv, ClockEdge
  <1>2. /\ BlockPos = 2 <=> IsFetch /\ t = 3
        /\ BlockPos = 3 <=> IsFetch /\ t = 4
    BY <1>1, Blocks
  <1>3. CASE ~enabled
    <2>1. curr' = curr /\ prev' = prev
      BY <1>3 DEF ClockEdge, tracer
    <2> QED  BY <1>3, <2>1
  <1>4. CASE enabled
    <2>1. Edge /\ Trace /\ TracerOK
      BY <1>1, <1>4 DEF Edge, ClockEdge, Types, TracerOK
    <2>2. /\ curr.bytes \in Seq(Byte) /\ curr'.bytes \in Seq(Byte) /\ Len(curr.bytes) \in Nat
          /\ IsFetch => t \in {1, 2, 3, 4}
          /\ ~IsFetch => t \in {1, 2}
          /\ IsOperand => ~IsFetch
      <3>1. /\ curr.bytes \in Seq(Byte) /\ curr' \in TraceSet
            /\ IsFetch => t \in {1, 2, 3, 4}
            /\ ~IsFetch => t \in {1, 2}
        BY <2>1, EdgeFacts
      <3>2. curr'.bytes \in Seq(Byte) /\ Len(curr.bytes) \in Nat
        BY <3>1 DEF TraceSet
      <3> QED  BY <3>1, <3>2 DEF IsOperand
    <2>3. ASSUME Longer, Len(curr.bytes) # 0 PROVE curr'.bytes # <<>> /\ curr.bytes # <<>>
      BY <2>2, <2>3 DEF Longer
    <2>4. CASE IsFetch /\ t = 3
      <3>1. ContinuesChain <=> continues /\ curr.bytes # <<>>
        <4>1. ContinuesChain <=> Belongs
          BY <1>1, <1>4, <2>4, Continuing
        <4>2. track.held => (continues <=> Belongs)
          BY <1>1, <1>4, <2>4 DEF Watched, Held, Joined, Ahead
        <4>3. track.held <=> curr.bytes # <<>>
          BY <1>4, Seconds
        <4>4. ~track.held => ~Belongs
          BY DEF Belongs
        <4> QED  BY <4>1, <4>2, <4>3, <4>4
      <3>3. CASE ContinuesChain
        <4>1. Longer
          BY <1>1, <2>1, <2>4, <3>3, Hooks
        <4>2. Len(curr.bytes) # 0
          <5>1. Len(curr.bytes) = 1
            BY <3>3 DEF ContinuesChain
          <5> QED  BY <5>1
        <4>3. prev' = prev
          BY <1>1, <2>1, <2>4, <3>3, Hooks
        <4> QED  BY <1>2, <2>3, <2>4, <3>1, <3>3, <4>1, <4>2, <4>3
      <3>4. CASE ~ContinuesChain
        <4>1. Fresh /\ prev' = curr
          BY <1>1, <2>1, <2>4, <3>4, Hooks
        <4>2. curr'.bytes # <<>>
          BY <4>1 DEF Fresh
        <4> QED  BY <1>2, <1>4, <2>4, <3>1, <3>4, <4>1, <4>2
      <3> QED  BY <3>3, <3>4
    <2>5. CASE IsFetch /\ t = 4
      <3>1. curr'.bytes = curr.bytes /\ prev'.bytes = <<>>
        BY <1>1, <2>1, <2>5, Hooks DEF Same
      <3> QED  BY <1>2, <1>4, <2>5, <3>1
    <2>6. CASE ~(IsFetch /\ t = 3) /\ ~(IsFetch /\ t = 4)
      <3>1. prev' = prev
        BY <1>1, <2>1, <2>2, <2>6, Hooks
      <3>2. curr'.bytes # <<>> <=> curr.bytes # <<>>
        <4>1. CASE ~IsFetch /\ t = 2 /\ Captures
          <5>1. Longer
            BY <1>1, <2>1, <4>1, Hooks
          <5>2. Len(curr.bytes) \in 1 .. 3
            BY <4>1, Zenon DEF Captures
          <5>3. \A n \in 1 .. 3 : n # 0
            OBVIOUS
          <5>4. Len(curr.bytes) # 0
            BY <5>2, <5>3, Zenon
          <5> QED  BY <2>3, <5>1, <5>4
        <4>2. CASE ~(~IsFetch /\ t = 2 /\ Captures)
          <5>1. curr'.bytes = curr.bytes
            BY <1>1, <2>1, <2>2, <2>6, <4>2, Hooks DEF Same
          <5> QED  BY <5>1
        <4> QED  BY <4>1, <4>2
      <3> QED  BY <1>2, <2>6, <3>1, <3>2
    <2> QED  BY <2>4, <2>5, <2>6
  <1> QED  BY <1>3, <1>4

(* The debug context implements what the run loop is proved about: the     *)
(* tracer of CpuSteps, whose buffers are only empty or not (z80dbg.ts      *)
(* under z80.ts's frame loop).                                             *)
THEOREM ImplementsRunLoopTracer == Spec => ImplementsCpuSteps
  <1>1. ASSUME Init PROVE Cpu!CpuInit
    <2>1. IInv
      BY <1>1, InitInv
    <2>2. /\ cycle = 1 /\ t = 1 /\ enabled = TRUE /\ curr.bytes = <<>> /\ prev.bytes = <<>>
          /\ insn.addr \in Nat
      BY <1>1, <2>1, EmptyFields DEF Init, IInv, CpuOK
    <2>3. /\ Fetches \in {1, 2} /\ EncLen \in Fetches .. 4 /\ Cycles \in Nat /\ Cycles >= EncLen
      BY <2>1, Sizes DEF IInv, CpuOK
    <2>4. IsFetch
      BY <2>2, <2>3 DEF IsFetch
    <2>5. BlockPos = 0 /\ BlockLength \in Nat \ (0 .. 3) /\ BlockPc \in Nat
      BY <2>2, <2>3, <2>4 DEF BlockPos, BlockLength, BlockPc
    <2>6. continues = FALSE
      BY <1>1 DEF Init
    <2> QED  BY <2>2, <2>5, <2>6 DEF Cpu!CpuInit
  <1>2. ASSUME IInv, ClockEdge PROVE Cpu!ClockEdge
    <2>1. CpuOK /\ CpuStep /\ enabled' = enabled
      BY <1>2 DEF IInv, ClockEdge
    <2>2. /\ Cpu!StartsAnew <=> enabled /\ BlockPos = 2 /\ ~(continues /\ curr.bytes # <<>>)
          /\ Cpu!InstructionCompletes <=> enabled /\ BlockPos = 3 /\ prev.bytes # <<>>
      BY DEF Cpu!StartsAnew, Cpu!InstructionCompletes
    <2>3. Cpu!Trace
      BY <1>2, <2>2, Buffers DEF Cpu!Trace
    <2>4. ~Cpu!Waiting
      BY DEF Cpu!Waiting
    <2>5. BlockPos = 2 <=> IsFetch /\ t = 3
      BY <2>1, Blocks
    <2>6. continues \in BOOLEAN /\ continues' \in BOOLEAN
      BY <1>2, StepInv DEF IInv, Types, Next
    <2>7. CASE /\ BlockPos + 1 < BlockLength /\ ~(t' = 1 /\ IsFetch')
               /\ BlockPos' = BlockPos + 1 /\ BlockLength' = BlockLength /\ BlockPc' = BlockPc
      <3>1. continues' <=> continues /\ ~(enabled /\ IsFetch /\ t = 3 /\ curr.bytes = <<>>)
        BY <1>2, <2>7, Seconds
      <3>2. continues' = (continues /\ ~Cpu!StartsAnew)
        BY <2>2, <2>5, <2>6, <3>1
      <3> QED  BY <2>1, <2>3, <2>4, <2>7, <3>2 DEF Cpu!ClockEdge
    <2>8. CASE /\ BlockPos + 1 = BlockLength /\ t' = 1 /\ IsFetch'
               /\ BlockPos' = 0 /\ BlockLength' \in Nat \ (0 .. 3) /\ BlockPc' \in Nat
      <3>1. continues' \in (IF continues THEN {FALSE} ELSE BOOLEAN)
        BY <1>2, <2>6, <2>8, Seconds
      <3> QED  BY <2>1, <2>3, <2>4, <2>8, <3>1 DEF Cpu!ClockEdge
    <2> QED  BY <2>1, <2>7, <2>8, Blocks
  <1>3. ASSUME NEW v \in BOOLEAN, SetEnabled(v) PROVE Cpu!SetEnabled(v)
    <2>1. UNCHANGED <<insn, cycle, t>> /\ enabled' = v
      BY <1>3 DEF SetEnabled, cpu
    <2>2. /\ BlockPos' = BlockPos /\ BlockLength' = BlockLength /\ BlockPc' = BlockPc
      BY <2>1 DEF BlockPos, BlockLength, BlockPc, IsFetch, Fetches, Cycles, Encoding
    <2>3. IF v /\ ~enabled THEN curr'.bytes = <<>> /\ prev'.bytes = <<>>
                           ELSE curr' = curr /\ prev' = prev
      BY <1>3, EmptyFields DEF SetEnabled, ResetBuffers, tracer
    <2>4. continues' = continues
      BY <1>3 DEF SetEnabled, Forget, history
    <2> QED  BY <2>1, <2>2, <2>3, <2>4 DEF Cpu!SetEnabled
  <1>4. ASSUME UNCHANGED vars PROVE UNCHANGED Cpu!cpuVars
    <2>1. UNCHANGED <<insn, cycle, t, enabled, curr, prev, continues>>
      BY <1>4 DEF vars, cpu, tracer, history
    <2> QED  BY <2>1 DEF Cpu!cpuVars, BlockPos, BlockLength, BlockPc, IsFetch, Fetches, Cycles, Encoding
  <1>5. ASSUME IInv, [Next]_vars
        PROVE  [Cpu!ClockEdge \/ \E v \in BOOLEAN : Cpu!SetEnabled(v)]_(Cpu!cpuVars)
    BY <1>2, <1>3, <1>4, <1>5 DEF Next
  <1> QED  BY <1>1, <1>5, Invariance, PTL DEF Spec, ImplementsCpuSteps
=============================================================================
