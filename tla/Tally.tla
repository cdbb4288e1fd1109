------------------------------- MODULE Tally -------------------------------
(***************************************************************************)
(* What a shared counter or balance promises: every operation of a known   *)
(* set is applied to the total exactly once, in one indivisible step.      *)
(***************************************************************************)
EXTENDS Naturals

CONSTANTS Ops, Value(_)   \* the operations and what each one adds

VARIABLES total, applied

Init == total = 0 /\ applied = {}

Apply(o) ==
  /\ o \in Ops \ applied
  /\ applied' = applied \cup {o}
  /\ total' = total + Value(o)

Next == \E o \in Ops : Apply(o)

Spec == Init /\ [][Next]_<<total, applied>>
=============================================================================
