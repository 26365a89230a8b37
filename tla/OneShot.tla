------------------------------- MODULE OneShot -------------------------------
(***************************************************************************)
(* What hc-count breakpoints promise, without the evaluator that keeps the *)
(* promise: a list, the ids that are quiet because they have paused a run  *)
(* at the target they have, and a clock.  Nothing is cached; each tick     *)
(* looks at the whole list.  RunLoop implements this module.               *)
(***************************************************************************)
EXTENDS Integers

CONSTANTS BpId, HcMax

VARIABLES
  list,     (* id -> breakpoint record, of any kind, or absent             *)
  quiet,    (* hc-count ids that fired and were not re-armed               *)
  hc,
  status    (* "paused", "running" or "stepping"                           *)

abstractVars == <<list, quiet, hc, status>>

Enabled(l, i)   == l[i].kind = "hc-count" /\ l[i].enabled
Due(i, h)       == Enabled(list, i) /\ i \notin quiet /\ list[i].target <= h
FirstDue(i, h)  == Due(i, h) /\ \A j \in BpId : Due(j, h) => list[i].target <= list[j].target

(* An id stays quiet through a change of the list only if it is still the  *)
(* same alarm: an hc-count, and, where it is enabled now, enabled before   *)
(* with the same target.                                                   *)
SameAlarm(i) ==
  /\ list'[i].kind = "hc-count"
  /\ list'[i].enabled => Enabled(list, i) /\ list[i].target = list'[i].target

Change ==
  /\ quiet' = {i \in quiet : SameAlarm(i)}
  /\ UNCHANGED <<hc, status>>

Zero ==
  /\ hc' = 0
  /\ quiet' = {}
  /\ UNCHANGED <<list, status>>

(* The user's verbs start and stop the clock at any time. *)
Command ==
  /\ status' \in {"paused", "running", "stepping"}
  /\ UNCHANGED <<list, quiet, hc>>

(* One edge.  The earliest target that is due is used up with every id     *)
(* that has it, and ends a run; without one nothing becomes quiet.         *)
Tick ==
  /\ status # "paused"
  /\ hc' = (IF hc < HcMax THEN hc + 1 ELSE hc)
  /\ quiet' = quiet \cup {i \in BpId : FirstDue(i, hc')}
  /\ (status = "running" /\ \E i \in BpId : Due(i, hc')) => status' = "paused"
  /\ status' \in {"paused", status}
  /\ list' = list

AbstractInit == quiet = {} /\ hc = 0 /\ status = "paused"
AbstractNext == Change \/ Zero \/ Command \/ Tick
AbstractSpec == AbstractInit /\ [][AbstractNext]_abstractVars
=============================================================================
