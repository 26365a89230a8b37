----------------------------- MODULE Z80Encoding -----------------------------
(***************************************************************************)
(* How many bytes the CPU fetches for an instruction, listed opcode by     *)
(* opcode from its instruction table and not from fields of the opcode.    *)
(* A prefix that another prefix follows is an instruction of one byte.     *)
(***************************************************************************)
EXTENDS Integers

Prefix == {221, 253}

ByteOperand ==
  {6, 14, 22, 30, 38, 46, 54, 62, 211, 219, 16, 24, 32, 40, 48, 56}
    \cup {198, 206, 214, 222, 230, 238, 246, 254}

WordOperand ==
  {1, 17, 33, 49, 34, 42, 50, 58, 195, 205}
    \cup {194, 202, 210, 218, 226, 234, 242, 250} \cup {196, 204, 212, 220, 228, 236, 244, 252}

(* The opcodes with an operand (HL), which a prefix turns into (IX+d). *)
Indexed ==
  {52, 53, 54, 70, 78, 86, 94, 102, 110, 126, 112, 113, 114, 115, 116, 117, 119}
    \cup {134, 142, 150, 158, 166, 174, 182, 190}

ExtendedWord == {67, 75, 83, 91, 99, 107, 115, 123}

PlainLength(op) ==
  CASE op \in ByteOperand -> 2 [] op \in WordOperand -> 3 [] OTHER -> 1

(* b, c: the first two bytes. *)
FetchLength(b, c) ==
  IF b \in Prefix
    THEN CASE c \in Prefix \cup {237} -> 1
           [] c = 203                 -> 4
           [] c \in Indexed           -> 2 + PlainLength(c)
           [] OTHER                   -> 1 + PlainLength(c)
    ELSE CASE b = 203 -> 2
           [] b = 237 -> IF c \in ExtendedWord THEN 4 ELSE 2
           [] OTHER   -> PlainLength(b)

(* Where the displacement of an indexed instruction is: its third byte.    *)
Displaced(b, c) == b \in Prefix /\ (c = 203 \/ c \in Indexed)
=============================================================================
