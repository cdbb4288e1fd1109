------------------------------ MODULE Dijkstra ------------------------------
(***************************************************************************)
(* graphs/Dijkstra/Dijkstra.c: routes between cities and the shortest      *)
(* distances from one of them.  An improved city is pushed again; its      *)
(* older entries stay in the heap until they are popped and passed over.   *)
(***************************************************************************)
EXTENDS MinHeap

CONSTANTS
  Cities,
  Start,       \* the city main starts from
  Kms,         \* the lengths callers give
  MaxRoutes,   \* bound: routes added
  Unreached    \* what distances start from: 999999

\* Distances and lengths are of type int, and so is the sum of two of them.
SumsFit == \A km \in Kms : Unreached + km <= 2147483647

ASSUME RoutesAssumption ==
  /\ Start \in Cities /\ Kms \subseteq Int
  /\ capacity \in Nat \ {0} /\ MaxRoutes \in Nat /\ Unreached \in Nat \ {0}
  /\ Nodes = [city_id : Cities, distance : 0 .. Unreached - 1]
  /\ SumsFit

VARIABLES
  phase,      \* building, loop, popped, relaxing, done or exited
  edges,      \* the routes from each city, the latest first
  added,      \* history: how many there are
  distances,
  rest        \* the routes from current_edge on

vars == <<heapVars, phase, edges, added, distances, rest>>

Init ==
  /\ HeapInit
  /\ phase = "building"
  /\ edges = [c \in Cities |-> <<>>] /\ added = 0
  /\ distances = [c \in Cities |-> Unreached]
  /\ rest = <<>>

Node(c, d) == [city_id |-> c, distance |-> d]
Edge(c, km) == [destination |-> c, weight |-> km]

\* The tests of add_route and validate_route; a name that is no city's fails
\* like a city that is its own destination.  The variant accepts any length.
AnyLength(from, to, km) == from # to
ValidRoute(from, to, km) == from # to /\ km > 0

add_route(from, to, km) ==
  /\ phase = "building" /\ added < MaxRoutes
  /\ IF ValidRoute(from, to, km)
     THEN /\ edges' = [edges EXCEPT ![from] = <<Edge(to, km)>> \o @]
          /\ added' = added + 1
          /\ UNCHANGED phase
     ELSE phase' = "exited" /\ UNCHANGED <<edges, added>>
  /\ UNCHANGED <<heapVars, distances, rest>>

StartRun ==
  /\ phase = "building"
  /\ distances' = [distances EXCEPT ![Start] = 0]
  /\ push(Node(Start, 0))
  /\ phase' = "loop"
  /\ UNCHANGED <<edges, added, rest>>

Sift == (SiftUp \/ SiftDown) /\ UNCHANGED <<phase, edges, added, distances, rest>>

Extract ==
  /\ phase = "loop"
  /\ pop
  /\ phase' = "popped"
  /\ UNCHANGED <<edges, added, distances, rest>>

\* A better entry of the city has been popped before; the variant takes its
\* last entry for stale as well.
StaleToo == root.distance >= distances[root.city_id]
Stale == root.distance > distances[root.city_id]

Continue ==
  /\ phase = "popped" /\ Idle /\ Stale
  /\ phase' = "loop"
  /\ UNCHANGED <<heapVars, edges, added, distances, rest>>

Expand ==
  /\ phase = "popped" /\ Idle /\ ~Stale
  /\ phase' = "relaxing" /\ rest' = edges[root.city_id]
  /\ UNCHANGED <<heapVars, edges, added, distances>>

Destination == Head(rest).destination
new_distance == distances[root.city_id] + Head(rest).weight

\* The variant takes the first distance found for the best.
FirstFound == distances[Destination] = Unreached
Improves == new_distance < distances[Destination]

Relaxing == phase = "relaxing" /\ Idle /\ rest # <<>>

Improve ==
  /\ Relaxing /\ Improves
  /\ distances' = [distances EXCEPT ![Destination] = new_distance]
  /\ push(Node(Destination, new_distance))
  /\ rest' = Tail(rest)
  /\ UNCHANGED <<phase, edges, added>>

\* push ends the program when the heap is full.
HeapFull ==
  /\ Relaxing /\ Improves /\ Full
  /\ distances' = [distances EXCEPT ![Destination] = new_distance]
  /\ phase' = "exited"
  /\ UNCHANGED <<heapVars, edges, added, rest>>

PassOver ==
  /\ Relaxing /\ ~Improves
  /\ rest' = Tail(rest)
  /\ UNCHANGED <<heapVars, phase, edges, added, distances>>

NextEntry ==
  /\ phase = "relaxing" /\ Idle /\ rest = <<>>
  /\ phase' = "loop"
  /\ UNCHANGED <<heapVars, edges, added, distances, rest>>

Finish ==
  /\ phase = "loop" /\ Idle /\ Size = 0
  /\ phase' = "done"
  /\ UNCHANGED <<heapVars, edges, added, distances, rest>>

run_dijkstra ==
  \/ StartRun \/ Sift \/ Extract \/ Continue \/ Expand
  \/ Improve \/ HeapFull \/ PassOver \/ NextEntry \/ Finish

Terminated == phase \in {"done", "exited"} /\ UNCHANGED vars

Next == \/ \E from, to \in Cities, km \in Kms : add_route(from, to, km)
        \/ run_dijkstra \/ Terminated

Spec == Init /\ [][Next]_vars
-----------------------------------------------------------------------------
EdgeSet == [destination : Cities, weight : Nat \ {0}]

(* The distances that are known are those of nodes that fit the heap.       *)
TypeOK ==
  /\ HeapTypeOK /\ HeapOrdered
  /\ phase \in {"building", "loop", "popped", "relaxing", "done", "exited"}
  /\ edges \in [Cities -> Seq(EdgeSet)] /\ rest \in Seq(EdgeSet)
  /\ added \in 0 .. MaxRoutes
  /\ distances \in [Cities -> 0 .. Unreached]

\* There is a route of km from a to b.
Route(a, b, km) == \E k \in DOMAIN edges[a] : edges[a][k] = Edge(b, km)

\* No route can be used to shorten a distance.
NoShortcut ==
  \A a, b \in Cities : \A k \in DOMAIN edges[a] :
    edges[a][k].destination = b =>
      distances[b] <= distances[a] + edges[a][k].weight

\* A city that was reached has a route from one before it on its way.
Attained ==
  \A b \in Cities \ {Start} : distances[b] < Unreached =>
    \E a \in Cities : \E k \in DOMAIN edges[a] :
      /\ edges[a][k].destination = b
      /\ distances[b] = distances[a] + edges[a][k].weight

(* Whatever stale entries the heap held, run_dijkstra ends with distances that
   no route can shorten and each of which a route attains: as lengths are
   positive, these are the lengths of the shortest ways, or Unreached for
   cities no way of less than that leads to.                                *)
ShortestFound ==
  phase = "done" => distances[Start] = 0 /\ NoShortcut /\ Attained

(* Cities come out of the heap in the order of their distance: what waits in
   it, stale or not, is no cheaper than what was popped last.              *)
PopsInOrder == \A k \in 1 .. Size : root.distance <= heap[k].distance

(* push finds the heap full only in a graph with more routes than the heap
   has entries, however often cities are improved.                          *)
CapacityOfRoutes ==
  phase = "exited" /\ Size = capacity => added > capacity
=============================================================================
