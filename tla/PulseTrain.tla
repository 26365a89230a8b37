----------------------------- MODULE PulseTrain -----------------------------
(***************************************************************************)
(* What the INT generator promises, with no clock: a line that is low for  *)
(* width ticks and high for period - width, and the ticks left until it    *)
(* turns.  A restart makes it turn low on the next tick; a change of its   *)
(* widths keeps what has passed of the present phase.                      *)
(***************************************************************************)
EXTENDS Integers

VARIABLES enabled, level, left, period, width

trainVars == <<enabled, level, left, period, width>>

PhaseOf(lev, p, w) == IF lev = 0 THEN w ELSE p - w

Sound(p, w) == w \in Nat \ {0} /\ p \in Nat /\ p > w

TrainInit ==
  /\ enabled \in BOOLEAN
  /\ Sound(period, width)
  /\ level = 1
  /\ left = 0

Turn ==
  /\ enabled
  /\ left = 0
  /\ level' = 1 - level
  /\ left' = PhaseOf(1 - level, period, width) - 1
  /\ UNCHANGED <<enabled, period, width>>

Wait ==
  /\ enabled
  /\ left > 0
  /\ left' = left - 1
  /\ UNCHANGED <<enabled, level, period, width>>

(* The epoch of the train becomes now. *)
Restart ==
  /\ enabled'
  /\ level' = 1
  /\ left' = 0
  /\ Sound(period', width')

Stop ==
  /\ ~enabled'
  /\ level' = 1
  /\ left' = 0
  /\ Sound(period', width')

(* The phase is kept; a phase that is already longer than its new length   *)
(* ends at once.                                                           *)
Retime ==
  /\ enabled /\ enabled'
  /\ level' = level
  /\ Sound(period', width')
  /\ LET late == PhaseOf(level, period', width') - PhaseOf(level, period, width)
     IN  left' = IF left + late > 0 THEN left + late ELSE 0

TrainNext == Turn \/ Wait \/ Restart \/ Stop \/ Retime

TrainSpec == TrainInit /\ [][TrainNext]_trainVars
=============================================================================
