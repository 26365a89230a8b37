------------------------------ MODULE MCStoreRun ------------------------------
(* Instances of StoreRun for TLC. *)
EXTENDS StoreRun

(* One range. *)
OneRange == {b \in PcBp : b.range = [lo |-> 0, hi |-> 0] /\ b.enabled}
=============================================================================
