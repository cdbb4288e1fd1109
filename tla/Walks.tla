------------------------------- MODULE Walks --------------------------------
(***************************************************************************)
(* graphs/BFS_and_DFS.c: the two walks over a matrix of edges.  The        *)
(* recursion of DFS is the stack of its activations.  The loop of one that *)
(* goes on finds the lowest vertex not visited yet: nothing it has passed  *)
(* over becomes unvisited again.                                           *)
(***************************************************************************)
EXTENDS Integers, SequencesExt, FiniteSetsExt

CONSTANTS
  matrix_size,  \* vertices are 1 .. matrix_size - 1
  Starts,       \* where callers start
  MaxWalks      \* bound: calls of DFS

WalkAssumption == matrix_size \in Nat /\ Starts \subseteq 1 .. matrix_size - 1

VARIABLES
  phase,    \* main, bfs or dfs
  matrix,   \* the pairs whose entry is 1, as sets: it is symmetric
  queue,
  visited,  \* of the walk under way; DFS never clears its own
  stack,    \* activations of DFS, the innermost first
  starts,   \* history: the vertices walks over visited began from
  printed   \* history: the vertices printed, in order

vars == <<phase, matrix, queue, visited, stack, starts, printed>>

Vertices == 1 .. matrix_size - 1
Pairs == {{v, w} : v, w \in Vertices}
Edges == {e \in Pairs : Cardinality(e) = 2}

Init ==
  /\ phase = "main" /\ matrix \in SUBSET Edges
  /\ queue = <<>> /\ visited = {} /\ stack = <<>>
  /\ starts = <<>> /\ printed = <<>>

Visit(S) == visited' = visited \cup S
-----------------------------------------------------------------------------
StartBFS(v) ==
  /\ phase = "main" /\ starts = <<>>
  /\ phase' = "bfs"
  /\ Visit({v}) /\ queue' = <<v>>
  /\ starts' = <<v>> /\ printed' = <<v>>
  /\ UNCHANGED <<matrix, stack>>

\* The neighbours the loop finds unvisited; the variant looks at all of them.
AllNeighbours(v) == {j \in Vertices : {v, j} \in matrix}
Fresh(v) == {j \in Vertices \ visited : {v, j} \in matrix}

\* The loop goes through the vertices by their numbers.
InOrder(S) ==
  CHOOSE f \in [1 .. Cardinality(S) -> S] :
    /\ \A v \in S : \E k \in DOMAIN f : f[k] = v
    /\ \A j, k \in DOMAIN f : j < k => f[j] < f[k]

\* The variant serves the latest vertex first.
PushFirst(found) == found \o Tail(queue)
Enqueue(found) == Tail(queue) \o found

Serve ==
  /\ phase = "bfs" /\ queue # <<>>
  /\ LET found == InOrder(Fresh(Head(queue)))
     IN  /\ queue' = Enqueue(found)
         /\ Visit(ToSet(found))
         /\ printed' = printed \o found
  /\ UNCHANGED <<phase, matrix, stack, starts>>

BFS == (\E v \in Starts : StartBFS(v)) \/ Serve
-----------------------------------------------------------------------------
\* An activation that finds its vertex unvisited; the variant does not mark it.
LeaveUnmarked(v) == UNCHANGED visited
Mark(v) == Visit({v})

Enter(v, callers) ==
  /\ v \notin visited
  /\ Mark(v)
  /\ stack' = <<v>> \o callers
  /\ printed' = Append(printed, v)

CallDFS(v) ==
  /\ phase \in {"main", "dfs"} /\ stack = <<>> /\ Len(starts) < MaxWalks
  /\ phase' = "dfs" /\ starts' = Append(starts, v)
  /\ \/ Enter(v, <<>>)
     \/ v \in visited /\ UNCHANGED <<visited, stack, printed>>
  /\ UNCHANGED <<matrix, queue>>

Descend ==
  /\ stack # <<>> /\ Fresh(Head(stack)) # {}
  /\ Enter(Min(Fresh(Head(stack))), stack)
  /\ UNCHANGED <<phase, matrix, queue, starts>>

Return ==
  /\ stack # <<>> /\ Fresh(Head(stack)) = {}
  /\ stack' = Tail(stack)
  /\ UNCHANGED <<phase, matrix, queue, visited, starts, printed>>

DFS == (\E v \in Starts : CallDFS(v)) \/ Descend \/ Return

Terminated == queue = <<>> /\ stack = <<>> /\ starts # <<>> /\ UNCHANGED vars

Next == BFS \/ DFS \/ Terminated

Spec == Init /\ [][Next]_vars
-----------------------------------------------------------------------------
(* Vertices are printed when they are marked, each once.                    *)
TypeOK ==
  /\ phase \in {"main", "bfs", "dfs"} /\ matrix \subseteq Edges
  /\ queue \in Seq(Vertices) /\ visited \subseteq Vertices
  /\ ToSet(printed) = visited /\ IsInjective(printed)
  /\ ToSet(stack) \subseteq visited /\ IsInjective(stack)

\* A set that no edge leaves.
Closed(S) == \A e \in matrix : e \cap S # {} => e \subseteq S

(* A walk that has ended printed the vertices that can be reached from where
   it started, and no others.                                               *)
WalksReach ==
  starts # <<>> /\ queue = <<>> /\ stack = <<>> =>
    /\ Closed(visited)
    /\ \A S \in SUBSET visited : Closed(S) /\ ToSet(starts) \subseteq S => S = visited

\* Where the first vertex with an edge to the k-th printed one stands.
FirstSource(k) ==
  CHOOSE j \in 1 .. Len(printed) :
    /\ {printed[j], printed[k]} \in matrix
    /\ \A i \in 1 .. j - 1 : {printed[i], printed[k]} \notin matrix

(* Breadth first: vertices come in the order in which the first vertices with
   an edge to them came.                                                    *)
BreadthFirst ==
  phase = "bfs" => \A k, l \in 2 .. Len(printed) :
                     k < l => FirstSource(k) <= FirstSource(l)

(* Depth first: what a vertex has an edge to comes before anything that only
   vertices before it lead to.                                              *)
DepthFirst ==
  phase = "dfs" =>
    \A a, b, c \in 1 .. Len(printed) :
      a < b /\ b < c /\ {printed[a], printed[c]} \in matrix =>
        \E d \in a .. b - 1 : {printed[d], printed[b]} \in matrix
=============================================================================
