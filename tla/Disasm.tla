------------------------------- MODULE Disasm -------------------------------
(***************************************************************************)
(* The disassembler (packages/z80cpu-disasm), on a window of bytes.  The   *)
(* text is abstracted to the registers it names and to whether an operand  *)
(* in it is shown as missing; the length and the annotations are exact.    *)
(* A value the code leaves out of its result is an empty set here.         *)
(***************************************************************************)
EXTENDS Integers, Sequences, FiniteSetsExt

(* The fields of an opcode. *)
X(op) == op \div 64
Y(op) == (op \div 8) % 8
Z(op) == op % 8
P(op) == Y(op) \div 2
Q(op) == Y(op) % 2

Idx == {"none", "IX", "IY"}

HighOf == [IX |-> "IXH", IY |-> "IYH"]
LowOf  == [IX |-> "IXL", IY |-> "IYL"]
AtOf   == [IX |-> "(IX+d)", IY |-> "(IY+d)"]

rTable   == <<"B", "C", "D", "E", "H", "L", "(HL)", "A">>
rpTable  == <<"BC", "DE", "HL", "SP">>
rp2Table == <<"BC", "DE", "HL", "AF">>

rSub(z, idx, keepHL) ==
  IF idx = "none" THEN rTable[z + 1]
  ELSE CASE z = 6             -> AtOf[idx]
         [] z = 4 /\ ~keepHL  -> HighOf[idx]
         [] z = 5 /\ ~keepHL  -> LowOf[idx]
         [] OTHER             -> rTable[z + 1]

HLSub(idx) == IF idx = "none" THEN "HL" ELSE idx

rpSub(p, idx)  == IF p = 2 THEN HLSub(idx) ELSE rpTable[p + 1]
rp2Sub(p, idx) == IF p = 2 THEN HLSub(idx) ELSE rp2Table[p + 1]

Signed(b) == IF b >= 128 THEN b - 256 ELSE b

-----------------------------------------------------------------------------
(* What an opcode reads after itself: a displacement, then an operand; the *)
(* registers its text names; whether it stays documented under a prefix.   *)

Form(disp, operand, names, indexed) ==
  [disp |-> disp, operand |-> operand, names |-> names, indexed |-> indexed]

Bytes(operand) == CASE operand = "-" -> 0 [] operand = "nn" -> 2 [] OTHER -> 1

(* Variant: the register beside (IX+d) is substituted too. *)
SubstituteBoth(op, idx) ==
  LET slot == idx # "none" /\ 6 \in {Y(op), Z(op)} IN
  IF op = 118 THEN Form(FALSE, "-", {}, FALSE)
  ELSE Form(slot, "-", {rSub(Y(op), idx, FALSE), rSub(Z(op), idx, FALSE)}, slot)

(* LD r,r': beside (IX+d), H and L stay themselves; HALT ignores a prefix. *)
LoadForm(op, idx) ==
  LET slot == idx # "none" /\ 6 \in {Y(op), Z(op)} IN
  IF op = 118 THEN Form(FALSE, "-", {}, FALSE)
  ELSE Form(slot, "-", {rSub(Y(op), idx, Z(op) = 6), rSub(Z(op), idx, Y(op) = 6)}, slot)

AluForm(op, idx) ==
  LET slot == idx # "none" /\ Z(op) = 6
  IN  Form(slot, "-", {rSub(Z(op), idx, FALSE)}, slot)

(* x = 0, z < 4: relative jumps, 16-bit loads and sums, loads through BC,  *)
(* DE and nn, 16-bit INC and DEC.                                          *)
WordForm(op, idx) ==
  CASE Z(op) = 0               -> Form(FALSE, IF Y(op) < 2 THEN "-" ELSE "e", {}, FALSE)
    [] Z(op) = 1 /\ Q(op) = 0  -> Form(FALSE, "nn", {rpSub(P(op), idx)}, P(op) = 2)
    [] Z(op) = 1 /\ Q(op) = 1  -> Form(FALSE, "-", {rpSub(2, idx), rpSub(P(op), idx)}, TRUE)
    [] Z(op) = 2 /\ P(op) < 2  -> Form(FALSE, "-", {rpTable[P(op) + 1]}, FALSE)
    [] Z(op) = 2 /\ P(op) = 2  -> Form(FALSE, "nn", {rpSub(2, idx)}, TRUE)
    [] Z(op) = 2 /\ P(op) = 3  -> Form(FALSE, "nn", {}, FALSE)
    [] Z(op) = 3               -> Form(FALSE, "-", {rpSub(P(op), idx)}, P(op) = 2)

(* Variant: LD (IX+d),n reads no displacement. *)
ImmediateOnly(op, idx) ==
  LET slot == idx # "none" /\ Y(op) = 6
  IN  CASE Z(op) \in {4, 5} -> Form(slot, "-", {rSub(Y(op), idx, FALSE)}, slot)
        [] Z(op) = 6        -> Form(FALSE, "n", {rSub(Y(op), idx, FALSE)}, slot)
        [] Z(op) = 7        -> Form(FALSE, "-", {}, FALSE)

(* x = 0, z > 3: 8-bit INC, DEC and LD r,n; the accumulator's operations.  *)
ByteForm(op, idx) ==
  LET slot == idx # "none" /\ Y(op) = 6
  IN  CASE Z(op) \in {4, 5} -> Form(slot, "-", {rSub(Y(op), idx, FALSE)}, slot)
        [] Z(op) = 6        -> Form(slot, "n", {rSub(Y(op), idx, FALSE)}, slot)
        [] Z(op) = 7        -> Form(FALSE, "-", {}, FALSE)

(* x = 3: jumps, calls, the stack, I/O. *)
ControlForm(op, idx) ==
  LET z == Z(op) y == Y(op) p == P(op) q == Q(op) IN
  CASE z \in {0, 7}                    -> Form(FALSE, "-", {}, FALSE)
    [] z \in {1, 5} /\ q = 0           -> Form(FALSE, "-", {rp2Sub(p, idx)}, p = 2)
    [] z = 1 /\ q = 1 /\ p < 2         -> Form(FALSE, "-", {}, FALSE)
    [] z = 1 /\ q = 1 /\ p > 1         -> Form(FALSE, "-", {HLSub(idx)}, TRUE)
    [] z \in {2, 4} \/ op \in {195, 205} -> Form(FALSE, "nn", {}, FALSE)
    [] z = 6 \/ (z = 3 /\ y \in {2, 3})  -> Form(FALSE, "n", {}, FALSE)
    [] z = 3 /\ y = 4                  -> Form(FALSE, "-", {HLSub(idx)}, TRUE)
    [] z = 3 /\ y = 5                  -> Form(FALSE, "-", {"DE", "HL"}, FALSE)
    [] OTHER                           -> Form(FALSE, "-", {}, FALSE)

MainForm(op, idx) ==
  CASE X(op) = 1                -> LoadForm(op, idx)
    [] X(op) = 2                -> AluForm(op, idx)
    [] X(op) = 0 /\ Z(op) < 4   -> WordForm(op, idx)
    [] X(op) = 0 /\ Z(op) >= 4  -> ByteForm(op, idx)
    [] X(op) = 3                -> ControlForm(op, idx)

-----------------------------------------------------------------------------
(* The reading: at is the position of the opcode in the window. *)

Nothing == [length |-> 0, names |-> {}, rel |-> {}, abs |-> {}, indexD |-> {},
            incomplete |-> FALSE, undocumented |-> FALSE]

(* The cursor stops at the end of the window: half a word is consumed, and *)
(* shown as missing.  A missing displacement is shown as zero.             *)
Read(w, at, form, undocumented) ==
  LET o     == at + (IF form.disp THEN 2 ELSE 1)
      end   == o + Bytes(form.operand) - 1
      whole == end <= Len(w)
  IN  [length |-> IF whole THEN end ELSE Len(w),
       names  |-> form.names,
       rel    |-> IF form.operand = "e" /\ whole THEN {Signed(w[o])} ELSE {},
       abs    |-> IF form.operand = "nn" /\ whole THEN {w[o] + 256 * w[o + 1]} ELSE {},
       indexD |-> IF form.disp THEN {IF at + 1 <= Len(w) THEN Signed(w[at + 1]) ELSE 0} ELSE {},
       incomplete   |-> form.operand # "-" /\ ~whole,
       undocumented |-> undocumented]

decodeMain(w, at, idx) ==
  LET form == MainForm(w[at], idx)
  IN  Read(w, at, form, idx # "none" /\ ~form.indexed)

(* CB: under a prefix the displacement comes before the sub-opcode, and a  *)
(* register other than (HL) is a copy of the result, but for BIT.          *)
decodeCB(w, at, idx) ==
  LET slot == idx # "none"
      o    == at + (IF slot THEN 2 ELSE 1)
  IN  IF o > Len(w) THEN [Nothing EXCEPT !.length = Len(w), !.incomplete = TRUE]
      ELSE LET op   == w[o]
               copy == IF Z(op) = 6 \/ X(op) = 1 THEN {} ELSE {rTable[Z(op) + 1]}
           IN  [Nothing EXCEPT
                  !.length       = o,
                  !.names        = IF slot THEN copy \cup {AtOf[idx]} ELSE {rTable[Z(op) + 1]},
                  !.indexD       = IF slot THEN {Signed(w[at + 1])} ELSE {},
                  !.undocumented = (X(op) = 0 /\ Y(op) = 6) \/ (slot /\ Z(op) # 6)]

(* The opcodes after ED that are documented; the rest are copies or NOPs.  *)
EDDocumented(op) ==
  LET y == Y(op) z == Z(op) IN
  \/ X(op) = 1 /\ CASE z \in {0, 1} -> y # 6
                    [] z \in {2, 3} -> TRUE
                    [] z = 4        -> y = 0
                    [] z = 5        -> y < 2
                    [] z = 6        -> y \in {0, 2, 3}
                    [] z = 7        -> y < 6
  \/ X(op) = 2 /\ y >= 4 /\ z <= 3

decodeED(w, at) ==
  IF at = Len(w) THEN [Nothing EXCEPT !.length = Len(w), !.incomplete = TRUE]
  ELSE LET op == w[at + 1]
           z  == Z(op)
       IN  Read(w, at + 1,
                Form(FALSE, IF X(op) = 1 /\ z = 3 THEN "nn" ELSE "-",
                     CASE X(op) = 1 /\ z < 2        -> IF Y(op) = 6 THEN {} ELSE {rTable[Y(op) + 1]}
                       [] X(op) = 1 /\ z = 2        -> {"HL", rpTable[P(op) + 1]}
                       [] X(op) = 1 /\ z = 3        -> {rpTable[P(op) + 1]}
                       [] OTHER                     -> {},
                     FALSE),
                ~EDDocumented(op))

(* Leading DD and FD: the last one counts, and before ED none does.        *)
disasm(w) ==
  LET opcodes == {i \in DOMAIN w : w[i] \notin {221, 253}} IN
  IF opcodes = {} THEN [Nothing EXCEPT !.length = Len(w)]
  ELSE LET at     == Min(opcodes)
           idx    == IF at = 1 THEN "none" ELSE IF w[at - 1] = 221 THEN "IX" ELSE "IY"
           wasted == at > 2 \/ (at > 1 /\ w[at] = 237)
           r      == CASE w[at] = 237 -> decodeED(w, at)
                       [] w[at] = 203 -> decodeCB(w, at, idx)
                       [] OTHER       -> decodeMain(w, at, idx)
       IN  [r EXCEPT !.undocumented = r.undocumented \/ wasted]
=============================================================================
