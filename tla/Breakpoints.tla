----------------------------- MODULE Breakpoints -----------------------------
(***************************************************************************)
(* The breakpoint list of the store and the per-edge evaluator it drives   *)
(* (runloop/breakpoints.ts).  The store keeps the list, and hands all of   *)
(* it to the evaluator after every mutation; the evaluator keeps derived   *)
(* state so that an edge costs one comparison: the enabled targets, which  *)
(* ids have fired, and the least target that has not.                      *)
(*                                                                         *)
(* The list's order only decides which of two matching ranges a pause      *)
(* names, so the list is a function of the ids.                            *)
(***************************************************************************)
EXTENDS CpuSteps

CONSTANTS
  BpId,    (* the ids shortId() may return                                 *)
  HcMax    (* 2^53: where a double stops counting by one                   *)

ASSUME HcAssumption == HcMax \in Nat /\ HcMax > 0

Hc       == 0 .. HcMax
Target   == 0 .. (HcMax - 1)          \* Number.MAX_SAFE_INTEGER is 2^53 - 1
Infinity == HcMax + 1                 \* above every HC

PcRange == {r \in [lo : Addr, hi : Addr] : r.lo <= r.hi}
Absent  == [kind |-> "absent"]
PcBp    == [kind : {"pc-range"}, range : PcRange, enabled : BOOLEAN]
HcBp    == [kind : {"hc-count"}, target : Target, enabled : BOOLEAN]
Bp      == PcBp \cup HcBp

VARIABLES
  bps,           (* the store's list: what each id denotes, Absent if none *)
  enabledPc,     (* the enabled ranges                                     *)
  enabledHc,     (* the target of each enabled hc-count id, else Infinity; *)
                 (* enabledHc and prevEnabledHcTargets of the code, which  *)
                 (* one call assigns from one list                         *)
  firedHcIds,    (* ids that stay quiet until they are re-armed            *)
  nextHcTarget   (* the least target not fired                             *)

evalVars == <<enabledPc, enabledHc, firedHcIds, nextHcTarget>>
bpVars   == <<bps, evalVars>>

BpTypeOK ==
  /\ bps \in [BpId -> Bp \cup {Absent}]
  /\ enabledPc \subseteq PcRange
  /\ enabledHc \in [BpId -> Target \cup {Infinity}]
  /\ firedHcIds \subseteq BpId
  /\ nextHcTarget \in Target \cup {Infinity}

-----------------------------------------------------------------------------
(* Derived from a list. *)

IsHcBp(b) == b.kind = "hc-count"
IsPcBp(b) == b.kind = "pc-range"

RangesOf(list)  == {list[i].range : i \in {j \in BpId : IsPcBp(list[j]) /\ list[j].enabled}}
TargetsOf(list) == [i \in BpId |-> IF IsHcBp(list[i]) /\ list[i].enabled
                                     THEN list[i].target ELSE Infinity]

(* recomputeNextHc: the minimum over the ids that have not fired, a        *)
(* singleton.                                                              *)
LeastTargets(targets, fired) ==
  {t \in Target \cup {Infinity} :
     /\ \A i \in BpId \ fired : t <= targets[i]
     /\ t = Infinity \/ \E i \in BpId \ fired : t = targets[i]}

Armed(i) == i \notin firedHcIds /\ enabledHc[i] # Infinity

-----------------------------------------------------------------------------
(* The evaluator's operations. *)

(* An id keeps its fired flag if the new list still has it as an hc-count  *)
(* and it is disabled there, or enabled with the target it had before.     *)
StillFired(list) ==
  {i \in firedHcIds : /\ IsHcBp(list[i])
                      /\ list[i].enabled => enabledHc[i] = list[i].target}

SetBreakpoints(list) ==
  /\ enabledPc' = RangesOf(list)
  /\ enabledHc' = TargetsOf(list)
  /\ firedHcIds' = StillFired(list)
  /\ nextHcTarget' \in LeastTargets(enabledHc', firedHcIds')

(* Variants: a target fires an edge late; a range excludes its last        *)
(* address.                                                                *)
HcHitLate(h)    == h > nextHcTarget
PcHitBelow(a)   == \E r \in enabledPc : r.lo <= a /\ a < r.hi

HcHit(h) == h >= nextHcTarget
PcHit(a) == \E r \in enabledPc : r.lo <= a /\ a <= r.hi

(* The part of checkAfterEdge that writes: every id sharing the target     *)
(* that is hit is marked, and the cache recomputed.                        *)
CheckAfterEdge(h) ==
  /\ UNCHANGED <<enabledPc, enabledHc>>
  /\ \/ /\ HcHit(h)
        /\ firedHcIds' = firedHcIds \cup {i \in BpId : enabledHc[i] = nextHcTarget}
        /\ nextHcTarget' \in LeastTargets(enabledHc, firedHcIds')
     \/ /\ ~HcHit(h)
        /\ UNCHANGED <<firedHcIds, nextHcTarget>>

ResetHcCutoff ==
  /\ firedHcIds' = {}
  /\ nextHcTarget' \in LeastTargets(enabledHc, {})
  /\ UNCHANGED <<enabledPc, enabledHc>>

-----------------------------------------------------------------------------
(* The store's mutations, each with the syncBreakpoints() that ends it.    *)

AddBreakpoint(i, b) ==
  /\ bps[i] = Absent
  /\ bps' = [bps EXCEPT ![i] = b]
  /\ SetBreakpoints(bps')

RemoveBreakpoint(i) ==
  /\ bps[i] # Absent
  /\ bps' = [bps EXCEPT ![i] = Absent]
  /\ SetBreakpoints(bps')

ToggleBreakpoint(i) ==
  /\ bps[i] # Absent
  /\ bps' = [bps EXCEPT ![i].enabled = ~@]
  /\ SetBreakpoints(bps')

(* A patch carries a target or a range and never moves the kind or the     *)
(* flag; one that changes nothing is dropped without a sync.               *)
EditBreakpoint(i, b) ==
  /\ bps[i] # Absent
  /\ bps[i].kind = b.kind
  /\ LET edited == [b EXCEPT !.enabled = bps[i].enabled]
     IN  /\ bps[i] # edited
         /\ bps' = [bps EXCEPT ![i] = edited]
  /\ SetBreakpoints(bps')

(* Boot: the list of the backend, armed once the store is built. *)
BpInit(lists) ==
  /\ bps \in lists
  /\ enabledPc = RangesOf(bps)
  /\ enabledHc = TargetsOf(bps)
  /\ firedHcIds = {}
  /\ nextHcTarget \in LeastTargets(enabledHc, {})
=============================================================================
