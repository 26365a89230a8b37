----------------------------- MODULE MCHwTrace ------------------------------
(* Instances of HwTrace for TLC. *)
EXTENDS HwTrace

(* Two buses that leave the other's stale value behind, and a signal that  *)
(* stays as it is while they alternate.                                    *)
FloatingSamples == {[ctl |-> 1, addr |-> 0, data |-> Floating],
                    [ctl |-> 1, addr |-> Floating, data |-> 1]}
=============================================================================
