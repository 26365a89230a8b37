---------------------------- MODULE MCInsnTrace -----------------------------
(* Instances of InsnTrace for TLC. *)
EXTENDS InsnTrace

Trace(addr, len, stale, type, next) ==
  [startAddr |-> addr, length |-> len, bytes |-> [b \in 0 .. 1 |-> IF b = 0 THEN 7 ELSE stale],
   m1Type |-> type, nextPc |-> next]

(* A one-byte instruction at 0 that repeats itself until it leads on, with  *)
(* other garbage past its byte then; and a two-byte one that leads back.    *)
LoopingInsns == {Trace(0, 1, 0, "normal", 0), Trace(0, 1, 5, "normal", 1),
                 Trace(1, 2, 5, "normal", 0)}
=============================================================================
