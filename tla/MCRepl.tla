------------------------------- MODULE MCRepl -------------------------------
(* One address, and all of them. *)
EXTENDS Repl

MCRanges == {[lo |-> 1, hi |-> 1], [lo |-> 0, hi |-> 1]}
=============================================================================
