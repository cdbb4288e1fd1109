----------------------------- MODULE Containers -----------------------------
(***************************************************************************)
(* Containers in an array: data-structures/stack.c, queue.c and            *)
(* dynamic_vector.c, memory/stream_queue.c.  The stack and the stream keep *)
(* pointers to what they allocate, the others the values themselves.       *)
(* Values are numbered in the order in which they are added.               *)
(***************************************************************************)
EXTENDS Integers, SequencesExt

CONSTANT MaxItems  \* bound: values added

NULL == 0
Capacities == [stack |-> 5, printer |-> 5, vector |-> 2, stream |-> 5]

VARIABLES
  kind,      \* the program
  phase,     \* running, exited, returned, or undefined: a second free
  slots,     \* the array
  capacity,
  size,
  live,      \* what was allocated for values and is not freed
  added,     \* history: how many values were added
  given      \* history: the values that were taken out, in order

vars == <<kind, phase, slots, capacity, size, live, added, given>>

Init ==
  /\ kind \in DOMAIN Capacities /\ phase = "running"
  /\ capacity = Capacities[kind] /\ slots = [i \in 0 .. capacity - 1 |-> NULL]
  /\ size = 0 /\ live = {} /\ added = 0 /\ given = <<>>

Runs(program) == phase = "running" /\ kind = program
Keeps == kind \in {"stack", "stream"}

Exit ==
  /\ phase' = "exited"
  /\ UNCHANGED <<kind, slots, capacity, size, live, added, given>>

\* The next value goes behind the last one.
Add ==
  /\ added < MaxItems
  /\ added' = added + 1 /\ size' = size + 1
  /\ slots' = [i \in 0 .. capacity' - 1 |->
                 IF i = size THEN added' ELSE IF i < capacity THEN slots[i] ELSE NULL]
  /\ live' = IF Keeps THEN live \cup {added'} ELSE live
  /\ UNCHANGED <<kind, phase, given>>

\* A value leaves, and with it what was allocated for it.
Give(v, array) ==
  /\ given' = Append(given, v) /\ size' = size - 1
  /\ slots' = array /\ live' = live \ {v}
  /\ UNCHANGED <<kind, phase, capacity, added>>

\* The loops that move every value one place forward; the last place keeps
\* what it has.
Forward == [i \in DOMAIN slots |-> IF i < size - 1 THEN slots[i + 1] ELSE slots[i]]
-----------------------------------------------------------------------------
(* stack.c *)

\* The stack takes one user less than its array; the variant overflows it.
StackFullLate == size > capacity
StackFull == size + 1 >= capacity

push(long_name) ==
  /\ Runs("stack")
  /\ \/ (StackFull \/ long_name) /\ Exit
     \/ ~StackFull /\ ~long_name /\ UNCHANGED capacity /\ Add

\* The last user; the variant takes the first.
Bottom == slots[0]
Top == slots[size - 1]

pop ==
  /\ Runs("stack")
  /\ \/ size = 0 /\ Exit
     \/ size > 0 /\ Give(Top, slots)
-----------------------------------------------------------------------------
(* queue.c *)

enqueue ==
  /\ Runs("printer")
  /\ \/ size = capacity /\ Exit
     \/ size < capacity /\ UNCHANGED capacity /\ Add

dequeue ==
  /\ Runs("printer")
  /\ \/ size = 0 /\ Exit
     \/ size > 0 /\ Give(slots[0], Forward)

print_queue == Runs("printer") /\ size = 0 /\ Exit
-----------------------------------------------------------------------------
(* stream_queue.c: calls on a full or an empty stream have no effect *)

StreamEnqueue ==
  /\ Runs("stream") /\ size < capacity
  /\ UNCHANGED capacity /\ Add

\* malloc fails: its NULL stays behind the last chunk.
StreamEnqueueFails ==
  /\ Runs("stream") /\ size < capacity
  /\ slots' = [slots EXCEPT ![size] = NULL]
  /\ UNCHANGED <<kind, phase, capacity, size, live, added, given>>

\* The loop that moves the chunks clears the place of the last one, unless it
\* is the only one; the variant does not clear it.
LastKept == Forward
LastCleared == [Forward EXCEPT ![size - 1] = IF size = 1 THEN @ ELSE NULL]

StreamDequeue == Runs("stream") /\ size > 0 /\ Give(slots[0], LastCleared)
-----------------------------------------------------------------------------
(* dynamic_vector.c *)

\* A full vector doubles; the variant doubles one value too late.
GrownLate == IF size > capacity THEN capacity * 2 ELSE capacity
Grown == IF size = capacity THEN capacity * 2 ELSE capacity

vector_push == Runs("vector") /\ capacity' = Grown /\ Add

vector_get(index) == Runs("vector") /\ index \notin 0 .. size - 1 /\ Exit
-----------------------------------------------------------------------------
\* What is freed at the end: a user of the stack, every entry of the stream.
Released ==
  CASE kind = "stack" -> {i \in DOMAIN slots : i < size}
    [] kind = "stream" -> {i \in DOMAIN slots : slots[i] # NULL}
    [] OTHER -> {}

FreedTwice ==
  \/ \E i \in Released : slots[i] \notin live
  \/ \E i, j \in Released : i # j /\ slots[i] = slots[j]

Return ==
  /\ phase = "running"
  /\ \/ FreedTwice /\ phase' = "undefined" /\ UNCHANGED live
     \/ /\ ~FreedTwice
        /\ phase' = "returned" /\ live' = live \ {slots[i] : i \in Released}
  /\ UNCHANGED <<kind, slots, capacity, size, added, given>>

Terminated == phase # "running" /\ UNCHANGED vars

Next ==
  \/ (\E long_name \in BOOLEAN : push(long_name)) \/ pop
  \/ enqueue \/ dequeue \/ print_queue
  \/ StreamEnqueue \/ StreamEnqueueFails \/ StreamDequeue
  \/ vector_push \/ (\E index \in -1 .. MaxItems : vector_get(index))
  \/ Return \/ Terminated

Spec == Init /\ [][Next]_vars
-----------------------------------------------------------------------------
Contents == [k \in 1 .. size |-> slots[k - 1]]
InOrder == [k \in 1 .. added |-> k]

TypeOK ==
  /\ phase \in {"running", "exited", "returned", "undefined"}
  /\ DOMAIN slots = 0 .. capacity - 1 /\ size \in 0 .. capacity
  /\ \A i \in DOMAIN slots : slots[i] \in NULL .. added
  /\ live \subseteq 1 .. added

(* Both queues are first in, first out, and a vector that grew has kept its
   values in their places.                                                  *)
FirstInFirstOut == kind # "stack" => given \o Contents = InOrder

(* The stack is last in, first out: what left it and what would leave it now
   is everything that came, and no third value leaves between two smaller
   ones after it in the wrong order, which marks the sequences a stack can
   produce.                                                                 *)
LastInFirstOut ==
  kind = "stack" =>
    LET out == given \o Reverse(Contents)
    IN  /\ Len(out) = added /\ ToSet(out) = 1 .. added
        /\ \A i, j, k \in 1 .. added :
             i < j /\ j < k => ~(out[j] < out[k] /\ out[k] < out[i])

(* What a container points to is allocated, nothing else is, and all is freed
   at the end.  Only a stream whose last chunk has been dequeued frees it a
   second time: that pointer stays in the array.                            *)
FreedOnce ==
  /\ Keeps /\ phase \in {"running", "exited"} => live = ToSet(Contents)
  /\ phase = "returned" => live = {}
  /\ phase = "undefined" => kind = "stream" /\ size = 0 /\ added > 0
=============================================================================
