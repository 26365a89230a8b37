------------------------------ MODULE MCIntGen ------------------------------
(* Small instances of IntGen. *)
EXTENDS IntGen

(* A number below every clamp, and widths that make long, short and        *)
(* touching phases.                                                        *)
FewWidths == {0, 1, 2, 5}
=============================================================================
