----------------------------- MODULE MCHexViews -----------------------------
(* Instances of HexViews for TLC. *)
EXTENDS HexViews, TLC

At(bytes) == [a \in 0 .. 15 |-> IF a < Len(bytes) THEN bytes[a + 1] ELSE 0]

(* Every opcode of every table, alone and under prefixes, with operands    *)
(* of both signs; looked at, not edited.                                   *)
Tails == {<<5, 128, 33, 1>>, <<254, 34, 221, 9>>}
Leads == {<<>>, <<221>>, <<253>>, <<203>>, <<237>>, <<221, 203>>, <<253, 203, 131>>,
          <<221, 253>>, <<253, 237>>, <<221, 221, 221>>}

Listing ==
  {[mem |-> At(lead \o <<op>> \o tail), pc |-> 0, verbs |-> 0, grids |-> {"mem"},
    columns |-> {"hex"}, pageSize |-> 8, bytesPerRow |-> 1] :
     lead \in Leads, op \in Byte, tail \in Tails}

(* A program to edit and run: bytes that print and bytes that do not,      *)
(* indexed instructions, and one that wraps around the end of memory.      *)
Program ==
  At(<<221, 54, 65, 7, 33, 0, 65, 203, 126, 16, 250, 205, 3, 0, 253, 54>>)

(* Long enough, with the ASCII column alone, for an editor to be left      *)
(* open, lose its page, and be typed into again.                           *)
Sessions ==
  {[mem |-> Program, pc |-> 0, verbs |-> 5, grids |-> {"mem", "rd", "wr"},
    columns |-> {"hex", "ascii"}, pageSize |-> 8, bytesPerRow |-> 1],
   [mem |-> Program, pc |-> 0, verbs |-> 7, grids |-> {"mem"},
    columns |-> {"ascii"}, pageSize |-> 4, bytesPerRow |-> 2]}

AllImages == Listing \cup Sessions

TwoFiles == <<[loadAddr |-> 6, bytes |-> <<62, 65, 221>>],
              [loadAddr |-> 14, bytes |-> <<0, 33, 1>>]>>
=============================================================================
