------------------------------ MODULE MinHeap -------------------------------
(***************************************************************************)
(* graphs/Dijkstra/Dijkstra-MinHeap.c: a binary heap of nodes in an array. *)
(* Slots are counted from 1.  push and pop put a node into the array; the  *)
(* passes of the loop that sifts it to its place are steps of their own,   *)
(* and nothing else is called before they end.                             *)
(***************************************************************************)
EXTENDS Integers, Sequences, FiniteSets

CONSTANTS
  Nodes,    \* what may be pushed: records of a city_id and a distance
  capacity

VARIABLES
  heap,  \* the first heap->size nodes of the array
  sift,  \* idle, up or down: the loop that runs, if any
  at,    \* its current slot
  root   \* what pop returned last

heapVars == <<heap, sift, at, root>>

NoNode == [city_id |-> 0, distance |-> 0]

HeapInit == heap = <<>> /\ sift = "idle" /\ at = 1 /\ root = NoNode

Idle == sift = "idle"
Size == Len(heap)

\* The size is tested before the slot is used; the variant uses one more.
FullLate == Size > capacity
Full == Size + 1 > capacity

push(n) ==
  /\ Idle /\ ~Full
  /\ heap' = Append(heap, n)
  /\ sift' = "up" /\ at' = Size + 1
  /\ UNCHANGED root

\* The last leaf takes the place of the root, if it is not the root itself;
\* the variant does not give up the leaf's slot.
KeepLeaf == [k \in 1 .. Size |-> IF k = 1 THEN heap[Size] ELSE heap[k]]
LeafToRoot == [k \in 1 .. Size - 1 |-> IF k = 1 THEN heap[Size] ELSE heap[k]]

pop ==
  /\ Idle /\ Size > 0
  /\ root' = heap[1]
  /\ heap' = LeafToRoot
  /\ sift' = (IF Size = 1 THEN "idle" ELSE "down")
  /\ at' = 1

Swap(i, j) == [heap EXCEPT ![i] = heap[j], ![j] = heap[i]]
Cheaper(i, j) == heap[i].distance < heap[j].distance

Settle == sift' = "idle" /\ at' = 1 /\ UNCHANGED <<heap, root>>

MoveTo(k) == heap' = Swap(at, k) /\ at' = k /\ UNCHANGED <<sift, root>>

Parent(k) == k \div 2

SiftUp ==
  /\ sift = "up"
  /\ IF at > 1 /\ Cheaper(at, Parent(at)) THEN MoveTo(Parent(at)) ELSE Settle

\* The cheaper child, the left one if they are equal; the variant never
\* looks at the right one.
LeftChild == 2 * at
Smallest ==
  IF 2 * at + 1 <= Size /\ Cheaper(2 * at + 1, 2 * at) THEN 2 * at + 1 ELSE 2 * at

SiftDown ==
  /\ sift = "down"
  /\ IF 2 * at <= Size /\ Cheaper(Smallest, at) THEN MoveTo(Smallest) ELSE Settle

HeapNext == (\E n \in Nodes : push(n)) \/ pop \/ SiftUp \/ SiftDown

HeapSpec == HeapInit /\ [][HeapNext]_heapVars
-----------------------------------------------------------------------------
HeapTypeOK ==
  /\ heap \in Seq(Nodes) /\ Size <= capacity
  /\ sift \in {"idle", "up", "down"}
  /\ at \in 1 .. capacity
  /\ root \in Nodes \cup {NoNode}

\* No node is cheaper than its parent, except the one that moves up, or
\* those below the one that moves down.
HeapOrdered ==
  \A k \in 2 .. Size :
    \/ ~Cheaper(k, Parent(k))
    \/ sift = "up" /\ k = at
    \/ sift = "down" /\ Parent(k) = at

\* The nodes in the heap, wherever they are.
Held == {heap[k] : k \in 1 .. Size}
Contents == [n \in Held |-> Cardinality({k \in 1 .. Size : heap[k] = n})]

Queue == INSTANCE PriorityQueue WITH
  Nodes <- Nodes \cup {NoNode}, waiting <- Contents

(* However calls of push and pop are mixed, pop returns a cheapest of the
   nodes that were pushed and not yet popped, and sifting loses none.       *)
ImplementsQueue == Queue!Spec
=============================================================================
