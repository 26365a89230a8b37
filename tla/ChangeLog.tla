----------------------------- MODULE ChangeLog ------------------------------
(***************************************************************************)
(* What the hardware trace promises, with no ring: the last Length changes *)
(* of an observed value, each with the tick at which it was first seen.    *)
(* Turning the log off, or its clock back, forgets them all.               *)
(***************************************************************************)
EXTENDS Integers, Sequences

CONSTANTS Length, Value

VARIABLES now, value, on, log

logVars == <<now, value, on, log>>

LastOf(s) == s[Len(s)]

Newest(s) == IF Len(s) > Length THEN Tail(s) ELSE s

Seen(s, v, t) ==
  IF s # <<>> /\ LastOf(s).value = v THEN s
                                     ELSE Newest(Append(s, [at |-> t, value |-> v]))

LogInit ==
  /\ now = 0
  /\ value \in Value
  /\ on \in BOOLEAN
  /\ log = <<>>

Tick ==
  /\ now' = now + 1
  /\ value' \in Value
  /\ log' = IF on THEN Seen(log, value', now') ELSE log
  /\ UNCHANGED on

Switch ==
  /\ on' \in BOOLEAN
  /\ log' = IF on' THEN log ELSE <<>>
  /\ UNCHANGED <<now, value>>

Zero ==
  /\ now' = 0
  /\ log' = <<>>
  /\ UNCHANGED <<value, on>>

LogNext == Tick \/ Switch \/ Zero

LogSpec == LogInit /\ [][LogNext]_logVars
=============================================================================
