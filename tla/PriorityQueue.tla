--------------------------- MODULE PriorityQueue ----------------------------
(***************************************************************************)
(* What push and pop of graphs/Dijkstra promise: a collection of nodes, of *)
(* which pop returns one with the least distance.                          *)
(***************************************************************************)
EXTENDS Bags, Naturals

CONSTANT Nodes  \* records with a distance

OneNode == INSTANCE BagsExt

VARIABLES
  waiting,  \* bag of the nodes pushed and not yet popped
  root      \* the node popped last

Init == waiting = EmptyBag /\ root \in Nodes

Insert(n) == waiting' = OneNode!BagAdd(waiting, n) /\ UNCHANGED root

Remove(n) ==
  /\ n \in DOMAIN waiting
  /\ \A m \in DOMAIN waiting : n.distance <= m.distance
  /\ waiting' = OneNode!BagRemove(waiting, n) /\ root' = n

Next == \E n \in Nodes : Insert(n) \/ Remove(n)

Spec == Init /\ [][Next]_<<waiting, root>>
=============================================================================
