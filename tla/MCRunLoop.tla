------------------------------ MODULE MCRunLoop ------------------------------
(* Instances of RunLoop for TLC. *)
EXTENDS RunLoop

(* Breakpoints of each kind: targets near enough that two ids may share    *)
(* one, that one may be due when another is reached, and that one may be   *)
(* set behind the clock.                                                   *)
BothKinds == {b \in HcBp : b.target \in {1, 2} /\ b.enabled}
               \cup {b \in PcBp : b.range = [lo |-> 1, hi |-> 1] /\ b.enabled}
=============================================================================
