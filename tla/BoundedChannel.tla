--------------------------- MODULE BoundedChannel ---------------------------
(***************************************************************************)
(* What every hand-over buffer of the repository promises its callers: a   *)
(* bounded first-in first-out channel.  Nothing is lost, duplicated or     *)
(* reordered between Put and Get, and no more than Capacity items are      *)
(* pending.  The thread pool, the semaphore ring buffer and the condition- *)
(* variable bounded buffer are each shown to implement it.                 *)
(***************************************************************************)
EXTENDS Naturals, Sequences

CONSTANTS Values,    \* what may be handed over
          Capacity   \* the most items that may be pending

VARIABLES pending,   \* items handed in and not yet handed out, oldest first
          delivered  \* every item handed out, in order (history)

channelVars == <<pending, delivered>>

(* What is put into the channel of submit_task, add_value and
   encode_package never exceeds its capacity.                               *)
TypeOK ==
  /\ pending \in Seq(Values)
  /\ Len(pending) <= Capacity
  /\ delivered \in Seq(Values)

Init == pending = <<>> /\ delivered = <<>>

Put(v) ==
  /\ Len(pending) < Capacity
  /\ pending' = Append(pending, v)
  /\ UNCHANGED delivered

Get ==
  /\ pending # <<>>
  /\ delivered' = Append(delivered, Head(pending))
  /\ pending' = Tail(pending)

Next == Get \/ \E v \in Values : Put(v)

Spec == Init /\ [][Next]_channelVars
=============================================================================
