------------------------------- MODULE Cargo -------------------------------
(***************************************************************************)
(* problems/cargo.c: ships queue with their container, the container is    *)
(* inspected as it joins the queue, and the front of the queue is loaded   *)
(* on one of four rails or discarded.  A container is named by the number  *)
(* of its arrival; enqueue and dequeue come in any order, clean is last.   *)
(***************************************************************************)
EXTENDS Naturals, Sequences

CONSTANTS
  CARGO_QUEUE_CAPACITY,
  Codes,     \* the tracking codes ships arrive with, a malformed one included
  Values,    \* the two measures of a container's material (uint8_t)
  MaxShips   \* bound: ships that arrive

\* What a project that gives them values has to see to.
CargoAssumption ==
  CARGO_QUEUE_CAPACITY \in Nat /\ Values \subseteq 0 .. 255 /\ MaxShips \in Nat

VARIABLES
  phase,      \* running, exited (queue full), crashed, or cleaned
  queue,      \* the array of pointers, NoShip for NULL
  size,
  rails,      \* the chain of containers of each rail
  container,  \* what each container holds, by the number of its arrival
  live        \* the containers malloc gave and nobody freed

vars == <<phase, queue, size, rails, container, live>>

CARGO_RAILS_CAPACITY == 4
Rails == 0 .. CARGO_RAILS_CAPACITY - 1
Slots == 0 .. CARGO_QUEUE_CAPACITY - 1
NoShip == 0
Arrived == DOMAIN container

IN_QUEUE_IDX == 0
INSPECTED_IDX == 1
QUARANTINE_IDX == 3
DEPARTURE_IDX == 7
StateBits == {IN_QUEUE_IDX, INSPECTED_IDX, QUARANTINE_IDX, DEPARTURE_IDX}

\* The sums of the characters of a code: BIOEN-0, MACHI-0 and MACHI-3.
CharSum == [code \in {"BIOEN-0", "MACHI-0", "MACHI-3"} |->
              CASE code = "BIOEN-0" -> 458 [] code = "MACHI-0" -> 447 [] code = "MACHI-3" -> 450]
hash_function(code) == CharSum[code] % CARGO_RAILS_CAPACITY
validate_tc(code) == code \in DOMAIN CharSum

\* Two measures in one byte, four bits each.
MAT_COMBINE(left, right) == (left % 16) * 16 + (right % 16)
MAT_EXTRACT_LEFT(val) == val \div 16
MAT_EXTRACT_RIGHT(val) == val % 16

Init ==
  /\ phase = "running"
  /\ queue = [i \in Slots |-> NoShip] /\ size = 0
  /\ rails = [r \in Rails |-> <<>>]
  /\ container = <<>> /\ live = {}

Running == phase = "running"
-----------------------------------------------------------------------------
(* enqueue and inspect *)

\* Both measures must be there; the variant is content with one.
OneMeasure(c) == MAT_EXTRACT_LEFT(c.material) # 0 \/ MAT_EXTRACT_RIGHT(c.material) # 0
BothMeasures(c) == MAT_EXTRACT_LEFT(c.material) # 0 /\ MAT_EXTRACT_RIGHT(c.material) # 0

\* The material is known, MAT_BIO or MAT_MAC, or unidentified.
Passes(c, mat) == IN_QUEUE_IDX \in c.state /\ mat = "known" /\ BothMeasures(c)

\* container_state is RESET and one bit set; the variant does not reset it.
InspectOver(c, mat) ==
  [c EXCEPT !.state = @ \cup {IF Passes(c, mat) THEN INSPECTED_IDX ELSE QUARANTINE_IDX}]
inspect(c, mat) ==
  [c EXCEPT !.state = {IF Passes(c, mat) THEN INSPECTED_IDX ELSE QUARANTINE_IDX}]

\* malloc leaves any bits in container_state; the queue bit is set over them.
NewContainer(code, v1, v2, garbage) ==
  [code |-> code, given |-> <<v1, v2>>, material |-> MAT_COMBINE(v1, v2),
   state |-> garbage \cup {IN_QUEUE_IDX}]

\* The measures of a material that is neither MAT_BIO nor MAT_MAC are not stored:
\* the byte is what malloc left.
StrangeContainer(code, left, garbage) ==
  [code |-> code, given |-> <<0, 0>>, material |-> left,
   state |-> garbage \cup {QUARANTINE_IDX}]

\* An inspected container joins the queue.
Enter(code, c) ==
  /\ Running /\ size < CARGO_QUEUE_CAPACITY /\ validate_tc(code)
  /\ Len(container) < MaxShips
  /\ container' = Append(container, c)
  /\ live' = live \cup {Len(container')}
  /\ queue' = [queue EXCEPT ![size] = Len(container')]
  /\ size' = size + 1
  /\ UNCHANGED <<phase, rails>>

Enqueue(code, v1, v2, garbage) ==
  Enter(code, inspect(NewContainer(code, v1, v2, garbage), "known"))

EnqueueStrange(code, left, garbage) ==
  Enter(code, inspect(StrangeContainer(code, left, garbage), "unidentified"))

\* enqueue returns when malloc fails.  A container whose tracking code gets no memory
\* is lost, with nothing that points to it; it gets no number.
EnqueueNoMemory ==
  /\ Running /\ size < CARGO_QUEUE_CAPACITY
  /\ UNCHANGED vars

\* validate_tc returns NULL and enqueue reads its size.
EnqueueMalformed(code) ==
  /\ Running /\ size < CARGO_QUEUE_CAPACITY /\ ~validate_tc(code)
  /\ phase' = "crashed"
  /\ UNCHANGED <<queue, size, rails, container, live>>

EnqueueFull ==
  /\ Running /\ size = CARGO_QUEUE_CAPACITY
  /\ phase' = "exited"
  /\ UNCHANGED <<queue, size, rails, container, live>>

enqueue ==
  \/ \E code \in Codes, v1, v2 \in Values, garbage \in SUBSET StateBits :
        Enqueue(code, v1, v2, garbage)
  \/ \E code \in Codes, left \in Values, garbage \in SUBSET StateBits :
        EnqueueStrange(code, left, garbage)
  \/ \E code \in Codes : EnqueueMalformed(code)
  \/ EnqueueNoMemory \/ EnqueueFull
-----------------------------------------------------------------------------
(* dequeue and load *)

\* Everything moves one slot to the left and the last slot is cleared; the
\* variant leaves the trailing duplicate.
KeepTrailing ==
  [i \in Slots |-> IF i < size - 1 THEN queue[i + 1] ELSE queue[i]]
ShiftLeft ==
  [i \in Slots |-> IF i < size - 1 THEN queue[i + 1] ELSE IF i = size - 1 THEN NoShip ELSE queue[i]]

Front == queue[0]
Rail(c) == hash_function(container[c].code)
\* The new container goes to the end of the chain; the variant puts it first.
PushFront(r, c) == <<c>> \o r
ChainEnd(r, c) == Append(r, c)

\* Only a container that finds others on its rail is marked for departure.
LoadFirst(c) ==
  /\ rails[Rail(c)] = <<>>
  /\ rails' = [rails EXCEPT ![Rail(c)] = <<c>>]
  /\ UNCHANGED container

LoadBehind(c) ==
  /\ rails[Rail(c)] # <<>>
  /\ rails' = [rails EXCEPT ![Rail(c)] = ChainEnd(@, c)]
  /\ container' = [container EXCEPT ![c].state = {DEPARTURE_IDX}]

Inspected(c) == INSPECTED_IDX \in container[c].state

Load(c) ==
  /\ Inspected(c)
  /\ LoadFirst(c) \/ LoadBehind(c)
  /\ UNCHANGED live

Discard(c) ==
  /\ ~Inspected(c)
  /\ live' = live \ {c}
  /\ UNCHANGED <<rails, container>>

load(c) == Load(c) \/ Discard(c)

Dequeue ==
  /\ Running /\ size > 0
  /\ load(Front)
  /\ queue' = ShiftLeft
  /\ size' = size - 1
  /\ UNCHANGED phase

DequeueEmpty ==
  /\ Running /\ size = 0
  /\ UNCHANGED vars

dequeue == Dequeue \/ DequeueEmpty
-----------------------------------------------------------------------------
(* clean *)

OnRail(r) == {rails[r][i] : i \in DOMAIN rails[r]}
OnRails == UNION {OnRail(r) : r \in Rails}
Queued == {queue[i] : i \in Slots} \ {NoShip}

\* The chains are freed, then every entry of the array that is not NULL.
clean ==
  /\ Running
  /\ phase' = "cleaned"
  /\ live' = live \ (OnRails \cup Queued)
  /\ UNCHANGED <<queue, size, rails, container>>

Terminated == ~Running /\ UNCHANGED vars

Next == enqueue \/ dequeue \/ clean \/ Terminated

Spec == Init /\ [][Next]_vars
-----------------------------------------------------------------------------
States == {{INSPECTED_IDX}, {QUARANTINE_IDX}, {DEPARTURE_IDX}}

(* After inspect a container has exactly one state bit, whatever malloc left
   in container_state.                                                      *)
TypeOK ==
  /\ phase \in {"running", "exited", "crashed", "cleaned"}
  /\ size \in 0 .. CARGO_QUEUE_CAPACITY
  /\ queue \in [Slots -> Arrived \cup {NoShip}]
  /\ \A r \in Rails : rails[r] \in Seq(Arrived)
  /\ \A c \in Arrived : container[c].state \in States /\ container[c].material \in 0 .. 255
  /\ live \subseteq Arrived

(* While it runs, a container that is still allocated is in one slot of the
   queue's first size slots or in one place of one rail, and nothing points to
   a freed one: clean frees each exactly once (the trailing pointer that
   dequeue clears, the discarded container that load frees).                *)
HeldOnce ==
  Running =>
    /\ OnRails \cup Queued = live
    /\ OnRails \cap Queued = {}
    /\ \A i \in Slots : queue[i] # NoShip <=> i < size
    /\ \A i, j \in 0 .. size - 1 : queue[i] = queue[j] => i = j

\* A container came with both measures of a material that cargo.c knows, in four
\* bits each.
Complete(c) == \A v \in {1, 2} : container[c].given[v] % 16 # 0

(* What load puts on a rail came with both measures; what it discards lacked
   one (inspect, MAT_COMBINE and the macros that extract).                  *)
Sorted ==
  Running =>
    \A c \in Arrived :
      /\ c \in OnRails => Complete(c)
      /\ c \notin live => ~Complete(c)

(* On a rail the containers stand in the order their ships arrived, and all
   that are there arrived before those of that rail still in the queue.     *)
RailOrder ==
  \A r \in Rails :
    /\ \A i, j \in DOMAIN rails[r] : i < j => rails[r][i] < rails[r][j]
    /\ \A c \in OnRail(r), q \in Queued : Running => c < q
=============================================================================
