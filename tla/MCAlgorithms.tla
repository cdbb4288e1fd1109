---------------------------- MODULE MCAlgorithms ----------------------------
(***************************************************************************)
(* The programs about an algorithm, on routes, on lists that are rewired   *)
(* and on arrays that are scanned, checked together: a run picks one of    *)
(* them at the start and the others stay in their initial state.           *)
(* The proofs about Dijkstra come first, those about the suite last.       *)
(***************************************************************************)
EXTENDS Dijkstra, TLC, FiniteSetTheorems, SequenceTheorems, WellFoundedInduction, TLAPS
-----------------------------------------------------------------------------
(* Proofs: for any cities, routes and heap capacity, the distances           *)
(* run_dijkstra ends with are the shortest.                                 *)

\* The types without the bounds of the heap, which the distances do not need.
Types ==
  /\ heap \in Seq(Nodes) /\ at \in Int
  /\ phase \in {"building", "loop", "popped", "relaxing", "done", "exited"}
  /\ edges \in [Cities -> Seq(EdgeSet)] /\ rest \in Seq(EdgeSet)
  /\ added \in Int
  /\ distances \in [Cities -> 0 .. Unreached]

SiftInside ==
  /\ sift \in {"idle", "up", "down"}
  /\ sift # "idle" => at \in 1 .. Size

\* Nothing happens before StartRun, and Start stays at 0 after it.
Fresh ==
  /\ phase = "building" => heap = <<>> /\ distances = [c \in Cities |-> Unreached]
  /\ phase \notin {"building", "exited"} => distances[Start] = 0

\* The node that was popped, and the edges that are left of its city.
Current ==
  /\ phase \in {"popped", "relaxing"} => root \in Nodes
  /\ phase = "relaxing" =>
       \A j \in DOMAIN rest : \E k \in DOMAIN edges[root.city_id] :
         rest[j] = edges[root.city_id][k]

Respected(a, k) == distances[edges[a][k].destination] <= distances[a] + edges[a][k].weight

\* The entry with the present distance of the city is still to be popped, or
\* has just been.
Waiting(a) ==
  \/ \E k \in 1 .. Size : heap[k] = Node(a, distances[a])
  \/ phase = "popped" /\ root = Node(a, distances[a])

\* The city's edges are being looked at, and those before current_edge have
\* been.
HalfWay(a) ==
  /\ phase = "relaxing" /\ a = root.city_id
  /\ \A k \in DOMAIN edges[a] :
       Respected(a, k) \/ \E j \in DOMAIN rest : rest[j] = edges[a][k]

Relaxed(a) == \A k \in DOMAIN edges[a] : Respected(a, k)

\* No improvement is forgotten.
Accounted ==
  /\ phase \in {"loop", "popped", "relaxing"} =>
       \A a \in Cities : distances[a] < Unreached => Waiting(a) \/ HalfWay(a) \/ Relaxed(a)
  /\ phase = "done" => \A a \in Cities : distances[a] < Unreached => Relaxed(a)

\* Every known distance was found on a route.
Found ==
  \A b \in Cities \ {Start} : distances[b] < Unreached =>
    \E a \in Cities : \E k \in DOMAIN edges[a] :
      /\ edges[a][k].destination = b
      /\ distances[b] >= distances[a] + edges[a][k].weight

IndInv == Types /\ SiftInside /\ Fresh /\ Current /\ Accounted /\ Found
-----------------------------------------------------------------------------
(* The passes of the sifting loops lose no node.                            *)
LEMMA SwapKeeps ==
  ASSUME heap \in Seq(Nodes), NEW i \in 1 .. Size, NEW j \in 1 .. Size
  PROVE  /\ Swap(i, j) \in Seq(Nodes) /\ Len(Swap(i, j)) = Size
         /\ \A k \in 1 .. Size : \E l \in 1 .. Size : Swap(i, j)[l] = heap[k]
<1>1. heap[i] \in Nodes /\ heap[j] \in Nodes
  BY ElementOfSeq DEF Size
<1>2. Swap(i, j) \in Seq(Nodes) /\ Len(Swap(i, j)) = Size
  BY <1>1, ExceptSeq DEF Swap, Size
<1>3. ASSUME NEW k \in 1 .. Size
      PROVE  \E l \in 1 .. Size : Swap(i, j)[l] = heap[k]
  <2>1. DOMAIN heap = 1 .. Size
    BY DEF Size
  <2>2. CASE k = i
    BY <2>1, <2>2 DEF Swap
  <2>3. CASE k = j
    BY <2>1, <2>3 DEF Swap
  <2>4. CASE k # i /\ k # j
    BY <2>1, <2>4 DEF Swap
  <2> QED BY <2>2, <2>3, <2>4
<1> QED BY <1>2, <1>3

(* Neither the swaps nor a push take a waiting entry away.                  *)
Kept == \A k \in 1 .. Size : \E l \in 1 .. Len(heap') : heap'[l] = heap[k]

(* No pass of the sifting loops loses an entry.                             *)
LEMMA SiftInd ==
  ASSUME IndInv, SiftUp \/ SiftDown
  PROVE  heap' \in Seq(Nodes) /\ at' \in Int /\ SiftInside' /\ Kept /\ root' = root
<1> USE DEF IndInv, Types
<1>1. Size \in Nat
  BY LenProperties DEF Size
<1>2. CASE Settle
  BY <1>1, <1>2 DEF Settle, SiftInside, Kept, Size
<1>3. ASSUME NEW k \in 1 .. Size, MoveTo(k), at \in 1 .. Size
      PROVE  heap' \in Seq(Nodes) /\ at' \in Int /\ SiftInside' /\ Kept /\ root' = root
  <2>1. heap' = Swap(at, k) /\ at' = k /\ sift' = sift /\ root' = root
    BY <1>3 DEF MoveTo
  <2>2. /\ Swap(at, k) \in Seq(Nodes) /\ Len(Swap(at, k)) = Size
        /\ \A m \in 1 .. Size : \E l \in 1 .. Size : Swap(at, k)[l] = heap[m]
    BY <1>3, SwapKeeps
  <2>3. Len(heap') = Size
    BY <2>1, <2>2
  <2>4. SiftInside'
    BY <2>1, <2>3, <1>1 DEF SiftInside, Size
  <2> QED BY <2>1, <2>2, <2>3, <2>4, <1>1 DEF Kept
<1>4. CASE SiftUp /\ ~Settle
  <2>1. at \in 1 .. Size /\ at > 1 /\ MoveTo(Parent(at))
    BY <1>4 DEF SiftUp, SiftInside
  <2>2. Parent(at) \in 1 .. Size
    BY <2>1, <1>1 DEF Parent
  <2> QED BY <2>1, <2>2, <1>3
<1>5. CASE SiftDown /\ ~Settle
  <2>1. at \in 1 .. Size /\ 2 * at <= Size /\ MoveTo(Smallest)
    BY <1>5 DEF SiftDown, SiftInside
  <2>2. Smallest \in 1 .. Size
    BY <2>1, <1>1 DEF Smallest
  <2> QED BY <2>1, <2>2, <1>3
<1> QED BY <1>2, <1>4, <1>5

(* push adds its node and loses none.                                       *)
LEMMA PushKeeps ==
  ASSUME IndInv, NEW n \in Nodes, push(n)
  PROVE  /\ heap' \in Seq(Nodes) /\ at' \in Int /\ SiftInside' /\ Kept /\ root' = root
         /\ \E l \in 1 .. Len(heap') : heap'[l] = n
<1>1. heap \in Seq(Nodes) /\ Size = Len(heap) /\ Size \in Nat
  BY LenProperties DEF IndInv, Types, Size
<1>2. heap' = Append(heap, n) /\ sift' = "up" /\ at' = Size + 1 /\ root' = root
  BY DEF push
<1>3. /\ heap' \in Seq(Nodes) /\ Len(heap') = Size + 1
      /\ \A k \in 1 .. Size : heap'[k] = heap[k]
      /\ heap'[Size + 1] = n
  BY <1>1, <1>2, AppendProperties
<1>4. SiftInside'
  BY <1>1, <1>2, <1>3 DEF SiftInside, Size
<1>5. Kept
  BY <1>1, <1>3 DEF Kept
<1>6. Size + 1 \in 1 .. Len(heap')
  BY <1>1, <1>3
<1> QED BY <1>1, <1>2, <1>3, <1>4, <1>5, <1>6

(* pop takes the first node and no other.                                   *)
LEMMA PopKeeps ==
  ASSUME IndInv, pop
  PROVE  /\ heap' \in Seq(Nodes) /\ at' \in Int /\ SiftInside' /\ root' \in Nodes
         /\ \A k \in 1 .. Size :
              heap[k] = root' \/ \E l \in 1 .. Len(heap') : heap'[l] = heap[k]
<1>1. heap \in Seq(Nodes) /\ Size = Len(heap) /\ Size \in Nat /\ Size > 0
  BY LenProperties DEF IndInv, Types, Size, pop
<1>2. \A k \in 1 .. Size : heap[k] \in Nodes
  BY <1>1, ElementOfSeq
<1>3. /\ root' = heap[1] /\ at' = 1 /\ heap' = LeafToRoot
      /\ sift' = (IF Size = 1 THEN "idle" ELSE "down")
  BY DEF pop
<1>4. heap' = [k \in 1 .. Size - 1 |-> IF k = 1 THEN heap[Size] ELSE heap[k]]
  BY <1>3 DEF LeafToRoot
<1>5. Size - 1 \in Nat /\ \A k \in 1 .. Size - 1 :
        (IF k = 1 THEN heap[Size] ELSE heap[k]) \in Nodes
  BY <1>1, <1>2
<1>6. heap' \in Seq(Nodes) /\ Len(heap') = Size - 1
  <2>1. heap' \in [1 .. Size - 1 -> Nodes]
    BY <1>4, <1>5
  <2>2. heap' \in Seq(Nodes)
    BY <1>5, <2>1, SeqDef
  <2>3. DOMAIN heap' = 1 .. Size - 1 /\ DOMAIN heap' = 1 .. Len(heap') /\ Len(heap') \in Nat
    BY <1>4, <2>2, LenProperties
  <2> QED BY <1>5, <2>2, <2>3
<1>7. SiftInside'
  BY <1>1, <1>3, <1>6 DEF SiftInside, Size
<1>8. ASSUME NEW k \in 1 .. Size
      PROVE  heap[k] = root' \/ \E l \in 1 .. Len(heap') : heap'[l] = heap[k]
  <2>1. CASE k = 1
    BY <1>3, <2>1
  <2>2. CASE k # 1 /\ k = Size
    <3>1. 1 \in 1 .. Size - 1 /\ heap'[1] = heap[k]
      BY <1>1, <1>4, <2>2
    <3> QED BY <3>1, <1>6
  <2>3. CASE k # 1 /\ k # Size
    <3>1. k \in 1 .. Size - 1 /\ heap'[k] = heap[k]
      BY <1>1, <1>4, <2>3
    <3> QED BY <3>1, <1>6
  <2> QED BY <2>1, <2>2, <2>3
<1> QED BY <1>1, <1>2, <1>3, <1>6, <1>7, <1>8
-----------------------------------------------------------------------------
(* Nodes are made of a city and a distance below Unreached.                 *)
LEMMA NodeProperties ==
  /\ \A c \in Cities, d \in 0 .. Unreached - 1 : Node(c, d) \in Nodes
  /\ \A n \in Nodes : /\ n.city_id \in Cities /\ n.distance \in 0 .. Unreached - 1
                      /\ n = Node(n.city_id, n.distance)
  /\ Start \in Cities /\ Unreached \in Nat /\ Unreached > 0
  BY RoutesAssumption DEF Node

(* The invariant holds before any route is added,                           *)
LEMMA InitInd == Init => IndInv
<1> SUFFICES ASSUME Init PROVE IndInv
  OBVIOUS
<1>1. Types
  BY NodeProperties, EmptySeq DEF Init, HeapInit, Types
<1>2. SiftInside /\ Fresh /\ Current /\ Accounted
  BY DEF Init, HeapInit, SiftInside, Fresh, Current, Accounted
<1>3. Found
  BY NodeProperties DEF Init, Found
<1> QED BY <1>1, <1>2, <1>3 DEF IndInv

(* add_route and validate_route.                                            *)
LEMMA AddInd ==
  ASSUME IndInv, NEW from \in Cities, NEW to \in Cities, NEW km \in Kms,
         add_route(from, to, km)
  PROVE  IndInv'
<1>1. /\ phase = "building" /\ UNCHANGED <<heap, sift, at, root, distances, rest>>
      /\ phase' \in {"building", "exited"}
  BY DEF add_route, heapVars, IndInv, Types
<1>2. edges' \in [Cities -> Seq(EdgeSet)] /\ added' \in Int
  <2>1. CASE ValidRoute(from, to, km)
    <3>1. Edge(to, km) \in EdgeSet
      BY <2>1, RoutesAssumption DEF ValidRoute, Edge, EdgeSet
    <3>2. edges[from] \in Seq(EdgeSet) /\ <<Edge(to, km)>> \in Seq(EdgeSet)
      BY <3>1 DEF IndInv, Types
    <3>3. <<Edge(to, km)>> \o edges[from] \in Seq(EdgeSet)
      BY <3>2, ConcatProperties
    <3>4. /\ edges' = [edges EXCEPT ![from] = <<Edge(to, km)>> \o edges[from]]
          /\ added' = added + 1
      BY <2>1 DEF add_route
    <3>5. edges \in [Cities -> Seq(EdgeSet)] /\ added \in Int
      BY DEF IndInv, Types
    <3>6. PICK new \in Seq(EdgeSet) : new = <<Edge(to, km)>> \o edges[from]
      BY <3>3
    <3> QED BY <3>4, <3>5, <3>6
  <2>2. CASE ~ValidRoute(from, to, km)
    BY <2>2 DEF add_route, IndInv, Types
  <2> QED BY <2>1, <2>2
<1>3. Types'
  BY <1>1, <1>2 DEF IndInv, Types
<1>4. distances = [c \in Cities |-> Unreached]
  BY <1>1 DEF IndInv, Fresh
<1>5. SiftInside' /\ Fresh' /\ Current' /\ Accounted'
  BY <1>1 DEF IndInv, SiftInside, Fresh, Current, Accounted, Size
<1>6. Found'
  BY <1>1, <1>4, NodeProperties DEF Found
<1> QED BY <1>3, <1>5, <1>6 DEF IndInv

(* The start of run_dijkstra.                                               *)
LEMMA StartInd ==
  ASSUME IndInv, StartRun
  PROVE  IndInv'
<1>1. /\ phase = "building" /\ phase' = "loop" /\ UNCHANGED <<edges, added, rest>>
      /\ distances' = [distances EXCEPT ![Start] = 0] /\ push(Node(Start, 0))
  BY DEF StartRun
<1>2. Node(Start, 0) \in Nodes
  BY NodeProperties
<1>3. /\ heap' \in Seq(Nodes) /\ at' \in Int /\ SiftInside'
      /\ \E l \in 1 .. Len(heap') : heap'[l] = Node(Start, 0)
  BY <1>1, <1>2, PushKeeps
<1>4. distances = [c \in Cities |-> Unreached]
  BY <1>1 DEF IndInv, Fresh
<1>5. distances' = [c \in Cities |-> IF c = Start THEN 0 ELSE Unreached]
  BY <1>1, <1>4
<1>6. Types'
  BY <1>1, <1>3, <1>5, NodeProperties DEF IndInv, Types
<1>7. Fresh' /\ Current'
  BY <1>1, <1>5, NodeProperties DEF Fresh, Current
<1>8. Accounted'
  <2>1. Waiting(Start)'
    BY <1>3, <1>5, NodeProperties DEF Waiting, Size
  <2>2. \A a \in Cities : distances'[a] < Unreached => a = Start
    BY <1>5, NodeProperties
  <2> QED BY <1>1, <2>1, <2>2 DEF Accounted
<1>9. Found'
  BY <1>5, NodeProperties DEF Found
<1> QED BY <1>3, <1>6, <1>7, <1>8, <1>9 DEF IndInv

\* What holds of the cities while nothing of the graph or the distances moves.
Unmoved == UNCHANGED <<edges, added, distances>>

(* An entry that is kept goes on waiting.                                   *)
LEMMA WaitingKept ==
  ASSUME Kept, Unmoved, phase' = phase, root' = root, NEW a \in Cities, Waiting(a)
  PROVE  Waiting(a)'
<1>1. CASE phase = "popped" /\ root = Node(a, distances[a])
  BY <1>1 DEF Waiting, Unmoved
<1>2. CASE \E k \in 1 .. Size : heap[k] = Node(a, distances[a])
  <2>1. \E l \in 1 .. Len(heap') : heap'[l] = Node(a, distances[a])
    BY <1>2 DEF Kept
  <2> QED BY <2>1 DEF Waiting, Unmoved, Size
<1> QED BY <1>1, <1>2 DEF Waiting

(* Without a new distance a relaxed city stays so.                          *)
LEMMA StillRelaxed ==
  ASSUME Unmoved
  PROVE  /\ \A a \in Cities : Relaxed(a)' <=> Relaxed(a)
         /\ Found' <=> Found
         /\ \A a \in Cities : \A k : Respected(a, k)' <=> Respected(a, k)
  BY DEF Unmoved, Relaxed, Respected, Found

(* in every pass of the sifting loops,                                      *)
LEMMA SiftStepInd ==
  ASSUME IndInv, Sift
  PROVE  IndInv'
<1>1. /\ heap' \in Seq(Nodes) /\ at' \in Int /\ SiftInside' /\ Kept /\ root' = root
      /\ Unmoved /\ UNCHANGED <<phase, rest>>
  BY SiftInd DEF Sift, Unmoved
<1>2. Types'
  BY <1>1 DEF IndInv, Types, Unmoved
<1>3. Fresh'
  <2>1. phase # "building"
    <3>1. SUFFICES ASSUME phase = "building" PROVE FALSE
      OBVIOUS
    <3>2. heap = <<>> /\ Size = 0
      BY <3>1, EmptySeq DEF IndInv, Fresh, Size
    <3>3. sift # "idle"
      BY DEF Sift, SiftUp, SiftDown
    <3> QED BY <3>2, <3>3 DEF IndInv, SiftInside
  <2> QED BY <1>1, <2>1 DEF IndInv, Fresh, Unmoved
<1>4. Current'
  BY <1>1 DEF IndInv, Current, Unmoved
<1>5. \A a \in Cities : /\ Waiting(a) => Waiting(a)'
                        /\ HalfWay(a) => HalfWay(a)'
                        /\ Relaxed(a) => Relaxed(a)'
  BY <1>1, WaitingKept, StillRelaxed DEF HalfWay, Unmoved, Respected
<1>6. Accounted'
  BY <1>1, <1>5 DEF IndInv, Accounted, Unmoved
<1> QED BY <1>1, <1>2, <1>3, <1>4, <1>6, StillRelaxed DEF IndInv

(* The popped node keeps its city waiting until it is judged.               *)
LEMMA ExtractInd ==
  ASSUME IndInv, Extract
  PROVE  IndInv'
<1>1. /\ phase = "loop" /\ phase' = "popped" /\ Unmoved /\ rest' = rest /\ pop
  BY DEF Extract, Unmoved
<1>2. /\ heap' \in Seq(Nodes) /\ at' \in Int /\ SiftInside' /\ root' \in Nodes
      /\ \A k \in 1 .. Size :
           heap[k] = root' \/ \E l \in 1 .. Len(heap') : heap'[l] = heap[k]
  BY <1>1, PopKeeps
<1>3. Types' /\ Fresh' /\ Current'
  BY <1>1, <1>2 DEF IndInv, Types, Fresh, Current, Unmoved
<1>4. ASSUME NEW a \in Cities, Waiting(a)
      PROVE  Waiting(a)'
  <2>1. PICK k \in 1 .. Size : heap[k] = Node(a, distances[a])
    BY <1>1, <1>4 DEF Waiting
  <2>2. distances'[a] = distances[a]
    BY <1>1 DEF Unmoved
  <2> QED BY <1>1, <1>2, <2>1, <2>2 DEF Waiting, Size
<1>5. Accounted'
  BY <1>1, <1>4, StillRelaxed DEF IndInv, Accounted, Unmoved, HalfWay
<1> QED BY <1>1, <1>2, <1>3, <1>5, StillRelaxed DEF IndInv

(* A stale node is not what a city waits with.                              *)
LEMMA ContinueInd ==
  ASSUME IndInv, Continue
  PROVE  IndInv'
<1>1. /\ phase = "popped" /\ phase' = "loop" /\ Unmoved /\ Stale
      /\ UNCHANGED <<heap, sift, at, root, rest>>
  BY DEF Continue, Unmoved, heapVars
<1>2. Types' /\ SiftInside' /\ Fresh' /\ Current'
  BY <1>1 DEF IndInv, Types, SiftInside, Fresh, Current, Unmoved, Size
<1>3. ASSUME NEW a \in Cities, Waiting(a)
      PROVE  Waiting(a)'
  <2>1. root # Node(a, distances[a])
    <3>1. distances[a] \in 0 .. Unreached /\ Unreached \in Nat
      BY NodeProperties DEF IndInv, Types
    <3>2. root = Node(a, distances[a]) => root.city_id = a /\ root.distance = distances[a]
      BY DEF Node
    <3> QED BY <1>1, <3>1, <3>2 DEF Stale
  <2> QED BY <1>1, <1>3, <2>1 DEF Waiting, Unmoved, Size
<1>4. Accounted'
  BY <1>1, <1>3, StillRelaxed DEF IndInv, Accounted, Unmoved, HalfWay
<1> QED BY <1>1, <1>2, <1>4, StillRelaxed DEF IndInv

(* The edges of the popped city are all still to be looked at.              *)
LEMMA ExpandInd ==
  ASSUME IndInv, Expand
  PROVE  IndInv'
<1>1. /\ phase = "popped" /\ phase' = "relaxing" /\ Unmoved
      /\ rest' = edges[root.city_id] /\ UNCHANGED <<heap, sift, at, root>>
  BY DEF Expand, Unmoved, heapVars
<1>2. root \in Nodes /\ root.city_id \in Cities
  BY <1>1, NodeProperties DEF IndInv, Current
<1>3. Types'
  BY <1>1, <1>2 DEF IndInv, Types, Unmoved
<1>4. SiftInside' /\ Fresh'
  BY <1>1 DEF IndInv, SiftInside, Fresh, Unmoved, Size
<1>5. Current'
  BY <1>1, <1>2 DEF Current, Unmoved
<1>6. ASSUME NEW a \in Cities, Waiting(a)
      PROVE  Waiting(a)' \/ HalfWay(a)'
  <2>1. CASE root = Node(a, distances[a])
    <3>1. a = root.city_id
      BY <2>1 DEF Node
    <3> QED BY <1>1, <3>1 DEF HalfWay, Unmoved
  <2>2. CASE \E k \in 1 .. Size : heap[k] = Node(a, distances[a])
    BY <1>1, <2>2 DEF Waiting, Unmoved, Size
  <2> QED BY <1>6, <2>1, <2>2 DEF Waiting
<1>7. Accounted'
  BY <1>1, <1>6, StillRelaxed DEF IndInv, Accounted, Unmoved, HalfWay
<1> QED BY <1>1, <1>3, <1>4, <1>5, <1>7, StillRelaxed DEF IndInv
-----------------------------------------------------------------------------
(* The edge that is looked at is one of the popped city.                    *)
LEMMA HeadOfRest ==
  ASSUME IndInv, Relaxing
  PROVE  /\ root.city_id \in Cities /\ Head(rest) \in EdgeSet
         /\ \E k \in DOMAIN edges[root.city_id] : edges[root.city_id][k] = Head(rest)
         /\ Tail(rest) \in Seq(EdgeSet)
         /\ \A j \in DOMAIN Tail(rest) : \E i \in DOMAIN rest : rest[i] = Tail(rest)[j]
         /\ \A j \in DOMAIN rest :
              rest[j] = Head(rest) \/ \E i \in DOMAIN Tail(rest) : rest[j] = Tail(rest)[i]
<1>1. phase = "relaxing" /\ rest # <<>> /\ rest \in Seq(EdgeSet)
  BY DEF Relaxing, IndInv, Types
<1>2. root.city_id \in Cities
  BY <1>1, NodeProperties DEF IndInv, Current
<1>3. /\ Tail(rest) \in Seq(EdgeSet) /\ Len(Tail(rest)) = Len(rest) - 1
      /\ \A i \in 1 .. Len(Tail(rest)) : Tail(rest)[i] = rest[i + 1]
      /\ Head(rest) = rest[1] /\ Head(rest) \in EdgeSet
      /\ DOMAIN rest = 1 .. Len(rest) /\ DOMAIN Tail(rest) = 1 .. Len(Tail(rest))
      /\ Len(rest) \in Nat /\ Len(rest) > 0
  <2>1. /\ Tail(rest) \in Seq(EdgeSet) /\ Len(Tail(rest)) = Len(rest) - 1
        /\ \A i \in 1 .. Len(Tail(rest)) : Tail(rest)[i] = rest[i + 1]
    BY <1>1, HeadTailProperties
  <2>2. Head(rest) = rest[1] /\ Len(rest) \in Nat /\ Len(rest) > 0
    BY <1>1, EmptySeq
  <2>3. Head(rest) \in EdgeSet
    BY <1>1, HeadTailProperties
  <2>4. DOMAIN rest = 1 .. Len(rest) /\ DOMAIN Tail(rest) = 1 .. Len(Tail(rest))
    BY <1>1, <2>1, LenProperties
  <2> QED BY <2>1, <2>2, <2>3, <2>4
<1>4. \E k \in DOMAIN edges[root.city_id] : edges[root.city_id][k] = Head(rest)
  <2>1. 1 \in DOMAIN rest
    BY <1>3
  <2> QED BY <1>1, <1>3, <2>1 DEF IndInv, Current
<1>5. ASSUME NEW j \in DOMAIN Tail(rest)
      PROVE  \E i \in DOMAIN rest : rest[i] = Tail(rest)[j]
  <2>1. j + 1 \in DOMAIN rest /\ Tail(rest)[j] = rest[j + 1]
    BY <1>3
  <2> QED BY <2>1
<1>6. ASSUME NEW j \in DOMAIN rest, j # 1
      PROVE  \E i \in DOMAIN Tail(rest) : rest[j] = Tail(rest)[i]
  <2>1. j - 1 \in DOMAIN Tail(rest) /\ Tail(rest)[j - 1] = rest[(j - 1) + 1]
    BY <1>3, <1>6
  <2>2. (j - 1) + 1 = j
    BY <1>3
  <2> QED BY <2>1, <2>2
<1> QED BY <1>2, <1>3, <1>4, <1>5, <1>6

(* A better distance is that of a node, of another city than the popped one
   and than the start.                                                      *)
LEMMA BetterDistance ==
  ASSUME IndInv, Relaxing, Improves
  PROVE  /\ Destination \in Cities /\ Destination # root.city_id /\ Destination # Start
         /\ new_distance \in 0 .. Unreached - 1 /\ new_distance < distances[Destination]
         /\ new_distance = distances[root.city_id] + Head(rest).weight
<1>1. PICK w \in Nat \ {0}, b \in Cities :
        w = Head(rest).weight /\ b = Destination
  BY HeadOfRest DEF EdgeSet, Destination
<1>2. PICK c \in Cities : c = root.city_id
  BY HeadOfRest
<1>3. /\ distances[b] \in 0 .. Unreached /\ distances[c] \in 0 .. Unreached
      /\ Unreached \in Nat
  BY NodeProperties DEF IndInv, Types
<1>4. new_distance = distances[c] + w /\ distances[c] + w < distances[b]
  BY <1>1, <1>2 DEF new_distance, Improves
<1>5. distances[Start] = 0
  BY DEF Relaxing, IndInv, Fresh
<1>6. b # c /\ distances[c] + w \in 0 .. Unreached - 1 /\ b # Start
  BY <1>3, <1>4, <1>5
<1> QED BY <1>1, <1>2, <1>4, <1>6

(* Distances only go down.                                                  *)
LEMMA BetterKeeps ==
  ASSUME IndInv, Relaxing, Improves, edges' = edges,
         distances' = [distances EXCEPT ![Destination] = new_distance]
  PROVE  /\ distances' \in [Cities -> 0 .. Unreached]
         /\ \A a \in Cities : distances'[a] <= distances[a]
         /\ \A a \in Cities \ {Destination} : distances'[a] = distances[a]
         /\ distances'[Destination] = new_distance
         /\ Found'
<1>1. PICK b \in Cities, c \in Cities, n \in 0 .. Unreached - 1 :
        /\ b = Destination /\ c = root.city_id /\ n = new_distance
        /\ b # c /\ b # Start /\ n < distances[b] /\ n = distances[c] + Head(rest).weight
  BY BetterDistance, HeadOfRest
<1>2. distances \in [Cities -> 0 .. Unreached] /\ Unreached \in Nat
  BY NodeProperties DEF IndInv, Types
<1>3. /\ distances' \in [Cities -> 0 .. Unreached]
      /\ \A a \in Cities : distances'[a] <= distances[a]
      /\ \A a \in Cities \ {b} : distances'[a] = distances[a]
      /\ distances'[b] = n
  BY <1>1, <1>2
<1>4. Found'
  <2>1. SUFFICES ASSUME NEW x \in Cities \ {Start}, distances'[x] < Unreached
                 PROVE  \E a \in Cities : \E k \in DOMAIN edges[a] :
                          /\ edges[a][k].destination = x
                          /\ distances'[x] >= distances'[a] + edges[a][k].weight
    BY DEF Found
  <2>2. CASE x = b
    <3>1. PICK k \in DOMAIN edges[c] : edges[c][k] = Head(rest)
      BY <1>1, HeadOfRest
    <3>2. edges[c][k].destination = b /\ n = distances'[c] + edges[c][k].weight
      BY <1>1, <1>3, <3>1 DEF Destination
    <3> QED BY <1>3, <2>2, <3>1, <3>2
  <2>3. CASE x # b
    <3>0. PICK a \in Cities : \E k \in DOMAIN edges[a] :
            /\ edges[a][k].destination = x
            /\ distances[x] >= distances[a] + edges[a][k].weight
      BY <1>3, <2>1, <2>3 DEF IndInv, Found
    <3>1. PICK k \in DOMAIN edges[a] :
            /\ edges[a][k].destination = x
            /\ distances[x] >= distances[a] + edges[a][k].weight
      BY <3>0
    <3>2. edges[a][k] \in EdgeSet
      BY ElementOfSeq, LenProperties DEF IndInv, Types
    <3>3. PICK w \in Nat : w = edges[a][k].weight
      BY <3>2 DEF EdgeSet
    <3>4. distances[a] \in Nat /\ distances'[a] \in Nat /\ distances'[a] <= distances[a]
          /\ distances[x] \in Nat /\ distances'[x] = distances[x]
      BY <1>2, <1>3, <2>3
    <3>5. distances'[x] >= distances'[a] + w
      BY <3>1, <3>3, <3>4
    <3> QED BY <3>1, <3>3, <3>5
  <2> QED BY <2>2, <2>3
<1> QED BY <1>1, <1>3, <1>4

(* Edges lead to cities and are of positive length.                         *)
LEMMA EdgeWeights ==
  ASSUME IndInv, NEW a \in Cities, NEW k \in DOMAIN edges[a]
  PROVE  edges[a][k].destination \in Cities /\ edges[a][k].weight \in Nat \ {0}
<1>1. edges[a][k] \in EdgeSet
  BY ElementOfSeq, LenProperties DEF IndInv, Types
<1> QED BY <1>1 DEF EdgeSet

(* The improved city waits with its new distance, the other cities lose
   nothing by it.                                                           *)
LEMMA ImproveInd ==
  ASSUME IndInv, Improve
  PROVE  IndInv'
<1>1. /\ Relaxing /\ Improves /\ phase = "relaxing" /\ phase' = phase
      /\ edges' = edges /\ added' = added /\ rest' = Tail(rest)
      /\ distances' = [distances EXCEPT ![Destination] = new_distance]
      /\ push(Node(Destination, new_distance))
  BY DEF Improve, Relaxing
<1>2. PICK b \in Cities, c \in Cities, n \in 0 .. Unreached - 1 :
        /\ b = Destination /\ c = root.city_id /\ n = new_distance
        /\ b # c /\ b # Start /\ n = distances[c] + Head(rest).weight
  BY <1>1, BetterDistance, HeadOfRest
<1>3. /\ distances' \in [Cities -> 0 .. Unreached]
      /\ \A a \in Cities : distances'[a] <= distances[a]
      /\ \A a \in Cities \ {b} : distances'[a] = distances[a]
      /\ distances'[b] = n
      /\ Found'
  BY <1>1, <1>2, BetterKeeps
<1>4. /\ heap' \in Seq(Nodes) /\ at' \in Int /\ SiftInside' /\ Kept /\ root' = root
      /\ \E l \in 1 .. Len(heap') : heap'[l] = Node(b, n)
  <2>1. Node(b, n) \in Nodes
    BY NodeProperties
  <2> QED BY <1>1, <1>2, <2>1, PushKeeps
<1>5. Types'
  BY <1>1, <1>3, <1>4, HeadOfRest DEF IndInv, Types
<1>6. Fresh'
  BY <1>1, <1>2, <1>3, NodeProperties DEF IndInv, Fresh
<1>7. Current'
  <2>1. root \in Nodes /\ root' = root /\ phase' = "relaxing"
    BY <1>1, <1>4 DEF IndInv, Current
  <2>2. \A j \in DOMAIN rest : \E k \in DOMAIN edges[root.city_id] :
          rest[j] = edges[root.city_id][k]
    BY <1>1 DEF IndInv, Current
  <2>3. \A j \in DOMAIN Tail(rest) : \E i \in DOMAIN rest : rest[i] = Tail(rest)[j]
    BY <1>1, HeadOfRest
  <2> QED BY <1>1, <2>1, <2>2, <2>3 DEF Current
<1>8. ASSUME NEW a \in Cities, a # b, NEW k \in DOMAIN edges[a], Respected(a, k)
      PROVE  Respected(a, k)'
  <2>1. edges[a][k].destination \in Cities
    BY EdgeWeights
  <2>2. PICK w \in Nat : w = edges[a][k].weight
    BY EdgeWeights
  <2>3. PICK x \in Cities : x = edges[a][k].destination
    BY <2>1
  <2>4. distances[x] \in 0 .. Unreached /\ distances'[x] \in 0 .. Unreached
        /\ distances[a] \in 0 .. Unreached
    BY <1>3 DEF IndInv, Types
  <2>5. distances'[x] <= distances[x] /\ distances'[a] = distances[a]
        /\ distances[x] <= distances[a] + w
    BY <1>3, <1>8, <2>2, <2>3 DEF Respected
  <2>6. distances'[x] <= distances'[a] + w
    BY <2>4, <2>5, NodeProperties
  <2> QED BY <1>1, <2>2, <2>3, <2>6 DEF Respected
<1>9. ASSUME NEW k \in DOMAIN edges[c], edges[c][k] = Head(rest)
      PROVE  Respected(c, k)'
  <2>1. edges[c][k].destination = b /\ n = distances[c] + edges[c][k].weight
    BY <1>2, <1>9 DEF Destination
  <2>2. distances'[b] = n /\ distances'[c] = distances[c] /\ n <= n
    BY <1>2, <1>3, NodeProperties
  <2> QED BY <1>1, <2>1, <2>2 DEF Respected
<1>10. ASSUME NEW a \in Cities, a # b, Waiting(a) \/ HalfWay(a) \/ Relaxed(a)
       PROVE  (Waiting(a) \/ HalfWay(a) \/ Relaxed(a))'
  <2>1. CASE Waiting(a)
    <3>1. distances'[a] = distances[a]
      BY <1>3, <1>10
    <3> QED BY <1>1, <1>4, <2>1, <3>1 DEF Waiting, Kept, Size
  <2>2. CASE HalfWay(a)
    <3>1. a = c
      BY <1>2, <2>2 DEF HalfWay
    <3>2. ASSUME NEW k \in DOMAIN edges[c]
          PROVE  Respected(c, k)' \/ \E i \in DOMAIN Tail(rest) : edges[c][k] = Tail(rest)[i]
      <4>1. CASE Respected(c, k)
        BY <1>2, <1>8, <4>1
      <4>2. CASE \E j \in DOMAIN rest : rest[j] = edges[c][k]
        BY <1>1, <1>9, <4>2, HeadOfRest
      <4> QED BY <2>2, <3>1, <4>1, <4>2 DEF HalfWay
    <3> QED BY <1>1, <1>2, <1>4, <3>1, <3>2 DEF HalfWay
  <2>3. CASE Relaxed(a)
    BY <1>1, <1>8, <1>10, <2>3 DEF Relaxed
  <2> QED BY <1>10, <2>1, <2>2, <2>3
<1>11. Waiting(b)'
  BY <1>3, <1>4 DEF Waiting, Size
<1>12. Accounted'
  <2>1. \A a \in Cities : distances'[a] < Unreached /\ a # b => distances[a] < Unreached
    BY <1>3
  <2> QED BY <1>1, <1>10, <1>11, <2>1 DEF IndInv, Accounted
<1> QED BY <1>3, <1>4, <1>5, <1>6, <1>7, <1>12 DEF IndInv

(* push ends the program.                                                   *)
LEMMA HeapFullInd ==
  ASSUME IndInv, HeapFull
  PROVE  IndInv'
<1>1. /\ Relaxing /\ Improves /\ phase' = "exited"
      /\ UNCHANGED <<heap, sift, at, root, edges, added, rest>>
      /\ distances' = [distances EXCEPT ![Destination] = new_distance]
  BY DEF HeapFull, heapVars
<1>2. distances' \in [Cities -> 0 .. Unreached] /\ Found'
  BY <1>1, BetterKeeps
<1>3. Types' /\ SiftInside' /\ Fresh' /\ Current' /\ Accounted'
  BY <1>1, <1>2 DEF IndInv, Types, SiftInside, Fresh, Current, Accounted, Size
<1> QED BY <1>2, <1>3 DEF IndInv

(* An edge that improves nothing is respected.                              *)
LEMMA PassOverInd ==
  ASSUME IndInv, PassOver
  PROVE  IndInv'
<1>1. /\ Relaxing /\ ~Improves /\ phase = "relaxing" /\ phase' = phase /\ Unmoved
      /\ rest' = Tail(rest) /\ UNCHANGED <<heap, sift, at, root>>
  BY DEF PassOver, Relaxing, Unmoved, heapVars
<1>2. Types' /\ SiftInside' /\ Fresh'
  BY <1>1, HeadOfRest DEF IndInv, Types, SiftInside, Fresh, Unmoved, Size
<1>3. Current'
  BY <1>1, HeadOfRest DEF IndInv, Current, Unmoved
<1>4. PICK c \in Cities : c = root.city_id
  BY <1>1, HeadOfRest
<1>5. ASSUME NEW k \in DOMAIN edges[c], edges[c][k] = Head(rest)
      PROVE  Respected(c, k)
  <2>1. PICK b \in Cities, w \in Nat : b = edges[c][k].destination /\ w = edges[c][k].weight
    BY EdgeWeights
  <2>2. distances[b] \in 0 .. Unreached /\ distances[c] \in 0 .. Unreached
    BY DEF IndInv, Types
  <2>3. ~(distances[c] + w < distances[b])
    BY <1>1, <1>4, <1>5, <2>1 DEF Improves, new_distance, Destination
  <2>4. distances[b] <= distances[c] + w
    BY <2>2, <2>3, NodeProperties
  <2> QED BY <2>1, <2>4 DEF Respected
<1>6. ASSUME NEW a \in Cities, HalfWay(a)
      PROVE  HalfWay(a)'
  <2>1. a = c
    BY <1>4, <1>6 DEF HalfWay
  <2>2. ASSUME NEW k \in DOMAIN edges[c]
        PROVE  Respected(c, k) \/ \E i \in DOMAIN Tail(rest) : Tail(rest)[i] = edges[c][k]
    BY <1>1, <1>5, <1>6, <2>1, HeadOfRest DEF HalfWay
  <2> QED BY <1>1, <1>4, <2>1, <2>2, StillRelaxed DEF HalfWay, Unmoved
<1>7. \A a \in Cities : Waiting(a) => Waiting(a)'
  BY <1>1 DEF Waiting, Unmoved, Size
<1>8. Accounted'
  BY <1>1, <1>6, <1>7, StillRelaxed DEF IndInv, Accounted, Unmoved
<1> QED BY <1>1, <1>2, <1>3, <1>8, StillRelaxed DEF IndInv

(* With no edge left, the popped city is relaxed.                           *)
LEMMA NextEntryInd ==
  ASSUME IndInv, NextEntry
  PROVE  IndInv'
<1>1. /\ phase = "relaxing" /\ phase' = "loop" /\ Unmoved /\ rest = <<>>
      /\ UNCHANGED <<heap, sift, at, root, rest>>
  BY DEF NextEntry, Unmoved, heapVars
<1>2. Types' /\ SiftInside' /\ Fresh' /\ Current'
  BY <1>1 DEF IndInv, Types, SiftInside, Fresh, Current, Unmoved, Size
<1>3. \A a \in Cities : HalfWay(a) => Relaxed(a)
  BY <1>1 DEF HalfWay, Relaxed
<1>4. \A a \in Cities : Waiting(a) => Waiting(a)'
  BY <1>1 DEF Waiting, Unmoved, Size
<1>5. Accounted'
  BY <1>1, <1>3, <1>4, StillRelaxed DEF IndInv, Accounted, Unmoved
<1> QED BY <1>1, <1>2, <1>5, StillRelaxed DEF IndInv

(* With the heap empty, nothing waits.                                      *)
LEMMA FinishInd ==
  ASSUME IndInv, Finish
  PROVE  IndInv'
<1>1. /\ phase = "loop" /\ phase' = "done" /\ Unmoved /\ Size = 0
      /\ UNCHANGED <<heap, sift, at, root, rest>>
  BY DEF Finish, Unmoved, heapVars
<1>2. Types' /\ SiftInside' /\ Fresh' /\ Current'
  BY <1>1 DEF IndInv, Types, SiftInside, Fresh, Current, Unmoved, Size
<1>3. \A a \in Cities : ~Waiting(a) /\ ~HalfWay(a)
  BY <1>1 DEF Waiting, HalfWay
<1>4. Accounted'
  BY <1>1, <1>3, StillRelaxed DEF IndInv, Accounted, Unmoved
<1> QED BY <1>1, <1>2, <1>4, StillRelaxed DEF IndInv

(* Every step keeps the invariant.                                          *)
LEMMA NextInd == IndInv /\ [Next]_vars => IndInv'
<1> SUFFICES ASSUME IndInv, [Next]_vars PROVE IndInv'
  OBVIOUS
<1>1. CASE UNCHANGED vars
  BY <1>1 DEF vars, heapVars, IndInv, Types, SiftInside, Fresh, Current, Accounted, Found,
              Waiting, HalfWay, Relaxed, Respected, Size
<1>2. CASE \E from, to \in Cities, km \in Kms : add_route(from, to, km)
  BY <1>2, AddInd
<1>3. CASE run_dijkstra
  BY <1>3, StartInd, SiftStepInd, ExtractInd, ContinueInd, ExpandInd, ImproveInd,
     HeapFullInd, PassOverInd, NextEntryInd, FinishInd DEF run_dijkstra
<1>4. CASE Terminated
  BY <1>1, <1>4 DEF Terminated
<1> QED BY <1>1, <1>2, <1>3, <1>4 DEF Next

(* A distance that was found on a route and respects all of them is attained
   by it.                                                                   *)
LEMMA FoundAttained == IndInv => ShortestFound
<1> SUFFICES ASSUME IndInv, phase = "done"
             PROVE  distances[Start] = 0 /\ NoShortcut /\ Attained
  BY DEF ShortestFound
<1>1. distances[Start] = 0
  BY DEF IndInv, Fresh
<1>2. ASSUME NEW a \in Cities, NEW k \in DOMAIN edges[a]
      PROVE  distances[edges[a][k].destination] <= distances[a] + edges[a][k].weight
  <2>1. PICK b \in Cities, w \in Nat : b = edges[a][k].destination /\ w = edges[a][k].weight
    BY EdgeWeights
  <2>2. distances[b] \in 0 .. Unreached /\ distances[a] \in 0 .. Unreached
    BY DEF IndInv, Types
  <2>3. CASE distances[a] < Unreached
    BY <2>3 DEF IndInv, Accounted, Relaxed, Respected
  <2>4. CASE distances[a] = Unreached
    <3>1. distances[b] <= distances[a] + w
      BY <2>2, <2>4, NodeProperties
    <3> QED BY <2>1, <3>1
  <2>5. distances[a] < Unreached \/ distances[a] = Unreached
    <3>1. PICK u \in Nat : u = Unreached
      BY RoutesAssumption
    <3>2. PICK x \in 0 .. u : x = distances[a]
      BY <2>2, <3>1
    <3>3. x < u \/ x = u
      BY <3>1, SMT
    <3> QED BY <3>1, <3>2, <3>3
  <2> QED BY <2>3, <2>4, <2>5, Zenon
<1>3. NoShortcut
  BY <1>2 DEF NoShortcut
<1>4. ASSUME NEW b \in Cities \ {Start}, distances[b] < Unreached
      PROVE  \E a \in Cities : \E k \in DOMAIN edges[a] :
               /\ edges[a][k].destination = b
               /\ distances[b] = distances[a] + edges[a][k].weight
  <2>1. PICK a \in Cities : \E k \in DOMAIN edges[a] :
          /\ edges[a][k].destination = b
          /\ distances[b] >= distances[a] + edges[a][k].weight
    BY <1>4 DEF IndInv, Found
  <2>2. PICK k \in DOMAIN edges[a] :
          /\ edges[a][k].destination = b
          /\ distances[b] >= distances[a] + edges[a][k].weight
    BY <2>1
  <2>3. PICK w \in Nat : w = edges[a][k].weight
    BY EdgeWeights
  <2>4. distances[b] \in 0 .. Unreached /\ distances[a] \in 0 .. Unreached
    BY DEF IndInv, Types
  <2>5. distances[b] <= distances[a] + w /\ distances[b] >= distances[a] + w
    BY <1>2, <2>2, <2>3
  <2>6. distances[b] = distances[a] + w
    <3>1. PICK d \in Nat, e \in Nat : d = distances[b] /\ e = distances[a]
      BY <2>4, NodeProperties
    <3>2. d <= e + w /\ d >= e + w
      BY <2>5, <3>1
    <3>3. d = e + w
      BY <3>1, <3>2, SMT
    <3> QED BY <3>1, <3>3
  <2>7. /\ edges[a][k].destination = b
        /\ distances[b] = distances[a] + edges[a][k].weight
    BY <2>2, <2>3, <2>6
  <2> QED BY <2>7
<1>5. Attained
  BY <1>4 DEF Attained
<1> QED BY <1>1, <1>3, <1>5

(* run_dijkstra ends with the shortest distances, in every graph: no route
   shortens one, and every known one is attained by a route.                *)
THEOREM DistancesAreShortest == Spec => []ShortestFound
<1>1. Spec => []IndInv
  BY InitInd, NextInd, PTL DEF Spec
<1> QED BY <1>1, FoundAttained, PTL
-----------------------------------------------------------------------------
(* The order of a heap, for any sequence of nodes. *)

Below(h, k) == h[k \div 2].distance <= h[k].distance
Ordered(h) == \A k \in 2..Len(h) : Below(h, k)

\* While the loop s sifts slot a, all are in order but that slot and its parent, or
\* its children; and its children are no cheaper than its parent.
OrderedBut(h, s, a) ==
  /\ s = "idle" => Ordered(h)
  /\ s = "up" => a \in 1..Len(h) /\ \A k \in 2..Len(h) : k # a => Below(h, k)
  /\ s = "down" => a \in 1..Len(h) /\ \A k \in 2..Len(h) : k \div 2 # a => Below(h, k)
  /\ s # "idle" /\ a > 1 =>
       \A k \in 2..Len(h) : k \div 2 = a => h[a \div 2].distance <= h[k].distance

Priced(h) == Len(h) \in Nat /\ \A k \in 1..Len(h) : h[k].distance \in Int
Swapped(g, h, i, j) ==
  /\ Len(g) = Len(h) /\ g[i] = h[j] /\ g[j] = h[i]
  /\ \A k \in 1..Len(h) : k # i /\ k # j => g[k] = h[k]

(* Where the parent of a slot is.                                           *)
LEMMA Parents ==
  ASSUME NEW k \in Nat
  PROVE  /\ k \div 2 \in Nat
         /\ k >= 2 => k \div 2 >= 1 /\ k \div 2 < k
         /\ \A a \in Nat : k \div 2 = a <=> k = 2 * a \/ k = 2 * a + 1
  BY SMT

(* The loop of push moves a node to its parent's slot ...                   *)
LEMMA MovedUp ==
  ASSUME NEW h, NEW g, NEW a, Priced(h), OrderedBut(h, "up", a), a > 1,
         Swapped(g, h, a, a \div 2), h[a].distance < h[a \div 2].distance
  PROVE  OrderedBut(g, "up", a \div 2)
  <1> DEFINE p == a \div 2
             n == Len(h)
  <1>1. a \in 1..n /\ n \in Nat /\ a \in Nat /\ a >= 2
    BY DEF OrderedBut, Priced
  <1>2. p \in 1..n /\ p < a /\ p \in Nat
    BY <1>1, Parents
  <1>3. /\ \A k \in 1..n : h[k].distance \in Int
        /\ \A k \in 2..n : k # a => h[k \div 2].distance <= h[k].distance
        /\ \A k \in 2..n : k \div 2 = a => h[p].distance <= h[k].distance
        /\ Len(g) = n /\ g[a] = h[p] /\ g[p] = h[a] /\ h[a].distance < h[p].distance
        /\ \A k \in 1..n : k # a /\ k # p => g[k] = h[k]
    BY <1>1 DEF OrderedBut, Below, Priced, Swapped
  <1>4. \A k \in 2..n : k \in 1..n /\ k \div 2 \in 1..n /\ k \div 2 # k
    BY <1>1, Parents
  <1>5. ASSUME NEW k \in 2..n, k # p PROVE g[k \div 2].distance <= g[k].distance
    <2> DEFINE q == k \div 2
    <2>1. q \in 1..n /\ q # k /\ k \in 1..n
      BY <1>4
    <2>2. CASE k = a
      BY <1>1, <1>2, <1>3, <2>2
    <2>3. CASE k # a /\ q = a
      BY <1>3, <1>5, <2>3
    <2>4. CASE k # a /\ q = p
      <3>1. h[p].distance <= h[k].distance /\ g[k] = h[k] /\ g[q] = h[a]
        BY <1>3, <1>5, <2>1, <2>4
      <3>2. h[p].distance \in Int /\ h[k].distance \in Int /\ h[a].distance \in Int
        BY <1>1, <1>2, <1>3, <2>1
      <3> QED BY <1>3, <3>1, <3>2
    <2>5. CASE k # a /\ q # a /\ q # p
      BY <1>3, <1>5, <2>1, <2>5
    <2> QED BY <2>2, <2>3, <2>4, <2>5
  <1>6. ASSUME p > 1, NEW k \in 2..n, k \div 2 = p PROVE g[p \div 2].distance <= g[k].distance
    <2> DEFINE r == p \div 2
    <2>1. p \in 2..n /\ r \in 1..n /\ r < p
      BY <1>1, <1>2, <1>6, Parents
    <2>2. g[r] = h[r] /\ h[r].distance <= h[p].distance
      BY <1>2, <1>3, <2>1
    <2>3. CASE k = a
      BY <1>3, <2>2, <2>3
    <2>4. CASE k # a
      <3>1. g[k] = h[k] /\ h[p].distance <= h[k].distance
        BY <1>3, <1>4, <1>6, <2>4
      <3>2. h[p].distance \in Int /\ h[k].distance \in Int /\ h[r].distance \in Int
        BY <1>2, <1>3, <1>4, <2>1
      <3> QED BY <2>2, <3>1, <3>2
    <2> QED BY <2>3, <2>4
  <1>7. Len(g) = n /\ p \in 1..n
    BY <1>2, <1>3
  <1> HIDE DEF p, n
  <1> QED BY <1>5, <1>6, <1>7 DEF OrderedBut, Below, p

(* ... until it is no cheaper than its parent, or the root.                 *)
LEMMA SettledUp ==
  ASSUME NEW h, NEW a, Priced(h), OrderedBut(h, "up", a),
         a > 1 => ~(h[a].distance < h[a \div 2].distance)
  PROVE  Ordered(h)
  <1>1. a \in 1..Len(h) /\ Len(h) \in Nat
    BY DEF OrderedBut, Priced
  <1>2. \A k \in 2..Len(h) : k # a => Below(h, k)
    BY DEF OrderedBut
  <1>3. ASSUME a > 1 PROVE h[a \div 2].distance <= h[a].distance
    <2>1. a \div 2 \in 1..Len(h)
      BY <1>1, <1>3, Parents
    <2>2. h[a].distance \in Int /\ h[a \div 2].distance \in Int
      BY <1>1, <2>1 DEF Priced
    <2> QED BY <1>3, <2>2
  <1> QED BY <1>1, <1>2, <1>3 DEF Ordered, Below

(* The loop of pop moves a node to the slot of its cheaper child ...         *)
LEMMA MovedDown ==
  ASSUME NEW h, NEW g, NEW a, NEW c \in 2..Len(h), Priced(h), OrderedBut(h, "down", a),
         c \div 2 = a, Swapped(g, h, a, c), h[c].distance < h[a].distance,
         \A k \in 2..Len(h) : k \div 2 = a => h[c].distance <= h[k].distance
  PROVE  OrderedBut(g, "down", c)
  <1> DEFINE n == Len(h)
  <1>1. a \in 1..n /\ n \in Nat /\ c \in 2..n /\ c \in 1..n /\ a < c /\ a \in Nat /\ c \in Nat
    BY Parents DEF OrderedBut, Priced
  <1>2. /\ \A k \in 1..n : h[k].distance \in Int
        /\ \A k \in 2..n : k \div 2 # a => h[k \div 2].distance <= h[k].distance
        /\ a > 1 => \A k \in 2..n : k \div 2 = a => h[a \div 2].distance <= h[k].distance
        /\ Len(g) = n /\ g[a] = h[c] /\ g[c] = h[a]
        /\ \A k \in 1..n : k # a /\ k # c => g[k] = h[k]
    BY DEF OrderedBut, Below, Priced, Swapped
  <1>3. \A k \in 2..n : k \in 1..n /\ k \div 2 \in 1..n /\ k \div 2 < k /\ k \in Nat
    BY <1>1, Parents
  <1>4. ASSUME NEW k \in 2..n, k \div 2 # c PROVE g[k \div 2].distance <= g[k].distance
    <2> DEFINE q == k \div 2
    <2>1. q \in 1..n /\ q < k /\ k \in 1..n /\ q \in Nat /\ k \in Nat
      BY <1>1, <1>3, Parents
    <2>2. CASE k = c
      <3>1. g[q] = h[c] /\ g[k] = h[a] /\ h[c].distance \in Int /\ h[a].distance \in Int
        BY <1>1, <1>2, <2>2
      <3> QED BY <3>1
    <2>3. CASE k # c /\ q = a
      <3>1. g[q] = h[c] /\ g[k] = h[k]
        BY <1>1, <1>2, <2>1, <2>3
      <3> QED BY <2>3, <3>1
    <2>4. CASE k = a
      <3>1. g[q] = h[q] /\ g[k] = h[c]
        BY <1>1, <1>2, <2>1, <2>4
      <3>2. a > 1 /\ h[a \div 2].distance <= h[c].distance
        BY <1>1, <1>2, <2>4
      <3> QED BY <2>4, <3>1, <3>2
    <2>5. CASE k # c /\ k # a /\ q # a
      <3>1. g[q] = h[q] /\ g[k] = h[k]
        BY <1>2, <1>4, <2>1, <2>5
      <3> QED BY <1>2, <2>5, <3>1
    <2> QED BY <2>2, <2>3, <2>4, <2>5
  <1>5. ASSUME NEW k \in 2..n, k \div 2 = c PROVE g[c \div 2].distance <= g[k].distance
    <2>1. g[c \div 2] = h[c] /\ k # c /\ k # a
      BY <1>1, <1>2, <1>3, <1>5
    <2>2. g[k] = h[k] /\ h[c].distance <= h[k].distance
      BY <1>1, <1>2, <1>3, <1>5, <2>1
    <2> QED BY <2>1, <2>2
  <1>6. Len(g) = n /\ c \in 1..n
    BY <1>1, <1>2
  <1> HIDE DEF n
  <1> QED BY <1>4, <1>5, <1>6 DEF OrderedBut, Below

(* ... until neither child is cheaper, if there is one.                     *)
LEMMA SettledDown ==
  ASSUME NEW h, NEW a, Priced(h), OrderedBut(h, "down", a),
         \A k \in 2..Len(h) : k \div 2 = a => h[a].distance <= h[k].distance
  PROVE  Ordered(h)
  BY DEF OrderedBut, Ordered, Below

(* Putting a node behind the last and taking the last for the root.         *)
LEMMA AppendedUp ==
  ASSUME NEW h, NEW g, Priced(h), Ordered(h), Len(g) = Len(h) + 1,
         \A k \in 1..Len(h) : g[k] = h[k]
  PROVE  OrderedBut(g, "up", Len(h) + 1)
  <1>1. Len(h) \in Nat
    BY DEF Priced
  <1>2. ASSUME NEW k \in 2..Len(g)
        PROVE  /\ k # Len(h) + 1 => g[k \div 2].distance <= g[k].distance
               /\ k \div 2 # Len(h) + 1
    <2>1. k \in Nat /\ k \div 2 \in Nat /\ k \div 2 >= 1 /\ k \div 2 < k /\ k <= Len(h) + 1
      BY <1>1, Parents
    <2>2. ASSUME k # Len(h) + 1 PROVE g[k \div 2].distance <= g[k].distance
      <3>1. k \in 2..Len(h) /\ k \in 1..Len(h) /\ k \div 2 \in 1..Len(h)
        BY <1>1, <2>1, <2>2
      <3> QED BY <3>1 DEF Ordered, Below
    <2> QED BY <1>1, <2>1, <2>2
  <1> QED BY <1>1, <1>2 DEF OrderedBut, Below
(* and the last, put in the place of the root, has to go down from it.      *)
LEMMA LeafDown ==
  ASSUME NEW h, NEW g, Priced(h), Ordered(h), Len(h) >= 2, Len(g) = Len(h) - 1,
         \A k \in 2..(Len(h) - 1) : g[k] = h[k]
  PROVE  OrderedBut(g, "down", 1)
  <1>1. Len(h) \in Nat
    BY DEF Priced
  <1>2. ASSUME NEW k \in 2..Len(g), k \div 2 # 1
        PROVE  g[k \div 2].distance <= g[k].distance
    <2>1. k \in Nat /\ k \div 2 \in Nat /\ k \div 2 >= 1 /\ k \div 2 < k /\ k <= Len(h) - 1
      BY <1>1, Parents
    <2>2. k \in 2..Len(h) /\ k \in 2..(Len(h) - 1) /\ k \div 2 \in 2..(Len(h) - 1)
      BY <1>1, <1>2, <2>1
    <2> QED BY <2>2 DEF Ordered, Below
  <1> QED BY <1>1, <1>2 DEF OrderedBut, Below

(* The root of a heap is a cheapest node.                                   *)
LEMMA RootLeast ==
  ASSUME NEW h, Priced(h), Ordered(h), NEW m \in 1..Len(h)
  PROVE  h[1].distance <= h[m].distance
  <1> DEFINE Bad == {k \in 1..Len(h) : ~(h[1].distance <= h[k].distance)}
  <1> SUFFICES ASSUME Bad # {} PROVE FALSE
    OBVIOUS
  <1>0. Len(h) \in Nat
    BY DEF Priced
  <1>1. PICK k \in Bad : \A j \in Bad : ~(j < k)
    <2>1. Bad \subseteq Nat
      BY <1>0
    <2> HIDE DEF Bad
    <2>2. PICK k \in Bad : \A j \in Bad : ~(<<j, k>> \in OpToRel(<, Nat))
      BY <2>1, NatLessThanWellFounded, WFMin
    <2>3. \A j \in Bad : <<j, k>> \in OpToRel(<, Nat) <=> j < k
      BY <2>1 DEF OpToRel
    <2> QED BY <2>2, <2>3
  <1>2. k \in 1..Len(h) /\ 1 \in 1..Len(h) /\ k \in Nat
    BY <1>0
  <1>3. \A j \in 1..Len(h) : h[j].distance \in Int
    BY DEF Priced
  <1>4. k # 1
    BY <1>2, <1>3
  <1>5. k \in 2..Len(h) /\ k \div 2 \in 1..Len(h) /\ k \div 2 < k
    BY <1>0, <1>2, <1>4, Parents
  <1>6. h[k \div 2].distance <= h[k].distance
    BY <1>5 DEF Ordered, Below
  <1>7. h[1].distance <= h[k \div 2].distance
    BY <1>1, <1>5
  <1>8. ~(h[1].distance <= h[k].distance)
    OBVIOUS
  <1> HIDE DEF Bad
  <1> QED BY <1>2, <1>3, <1>5, <1>6, <1>7, <1>8
-----------------------------------------------------------------------------
(* What a heap holds, for any sequence of nodes. *)

Slots(h, x) == {k \in 1..Len(h) : h[k] = x}
HeldIn(h) == {h[k] : k \in 1..Len(h)}
Bagged(h) == [x \in HeldIn(h) |-> Cardinality(Slots(h, x))]

OneMore(B, y) ==
  IF y \in DOMAIN B
  THEN [e \in DOMAIN B |-> IF e = y THEN B[e] + 1 ELSE B[e]]
  ELSE [e \in DOMAIN B \cup {y} |-> IF e = y THEN 1 ELSE B[e]]
OneLess(B, y) ==
  IF B[y] = 1 THEN [e \in DOMAIN B \ {y} |-> B[e]]
  ELSE [e \in DOMAIN B |-> IF e = y THEN B[e] - 1 ELSE B[e]]

(* A node is held as often as it has slots.                                 *)
LEMMA SlotsCount ==
  ASSUME NEW h, Len(h) \in Nat, NEW x
  PROVE  /\ IsFiniteSet(Slots(h, x)) /\ Cardinality(Slots(h, x)) \in Nat
         /\ x \in HeldIn(h) <=> Cardinality(Slots(h, x)) # 0
  <1>1. IsFiniteSet(1..Len(h)) /\ Slots(h, x) \subseteq 1..Len(h)
    BY FS_Interval DEF Slots
  <1>2. IsFiniteSet(Slots(h, x))
    BY <1>1, FS_Subset
  <1>3. Cardinality(Slots(h, x)) \in Nat /\ (Cardinality(Slots(h, x)) = 0 <=> Slots(h, x) = {})
    BY <1>2, FS_CardinalityType, FS_EmptySet
  <1>4. x \in HeldIn(h) <=> Slots(h, x) # {}
    BY DEF HeldIn, Slots
  <1> QED BY <1>2, <1>3, <1>4

(* Equal counts are equal bags ...                                          *)
LEMMA SameBag ==
  ASSUME NEW h, NEW g, Len(h) \in Nat, Len(g) \in Nat,
         \A x : Cardinality(Slots(g, x)) = Cardinality(Slots(h, x))
  PROVE  Bagged(g) = Bagged(h)
  <1>1. \A x : x \in HeldIn(g) <=> x \in HeldIn(h)
    BY SlotsCount
  <1>2. HeldIn(g) = HeldIn(h)
    BY <1>1
  <1> QED BY <1>2 DEF Bagged

(* ... one slot more is one node more in the bag ...                        *)
LEMMA BagMore ==
  ASSUME NEW h, NEW g, Len(h) \in Nat, Len(g) \in Nat, NEW y,
         \A x : Cardinality(Slots(g, x)) =
                  IF x = y THEN Cardinality(Slots(h, x)) + 1 ELSE Cardinality(Slots(h, x))
  PROVE  Bagged(g) = OneMore(Bagged(h), y)
  <1> USE DEF OneMore
  <1>1. DOMAIN Bagged(h) = HeldIn(h)
        /\ \A e \in HeldIn(h) : Bagged(h)[e] = Cardinality(Slots(h, e))
    BY DEF Bagged
  <1>2. \A x : /\ Cardinality(Slots(h, x)) \in Nat
               /\ x \in HeldIn(h) <=> Cardinality(Slots(h, x)) # 0
               /\ x \in HeldIn(g) <=> Cardinality(Slots(g, x)) # 0
    BY SlotsCount
  <1>3. \A x : x \in HeldIn(g) <=> x \in HeldIn(h) \/ x = y
    BY <1>2
  <1>4. HeldIn(g) = HeldIn(h) \cup {y}
    BY <1>3
  <1>5. Bagged(g) = [e \in HeldIn(g) |-> Cardinality(Slots(g, e))]
    BY DEF Bagged
  <1>6. CASE y \in HeldIn(h)
    <2>1. HeldIn(g) = HeldIn(h)
      BY <1>4, <1>6
    <2>2. \A e \in HeldIn(h) : Cardinality(Slots(g, e)) =
            IF e = y THEN Bagged(h)[e] + 1 ELSE Bagged(h)[e]
      BY <1>1
    <2> QED BY <1>1, <1>5, <1>6, <2>1, <2>2
  <1>7. CASE y \notin HeldIn(h)
    <2>1. Cardinality(Slots(h, y)) = 0
      BY <1>2, <1>7
    <2>2. \A e \in HeldIn(h) \cup {y} : Cardinality(Slots(g, e)) =
            IF e = y THEN 1 ELSE Bagged(h)[e]
      BY <1>1, <2>1
    <2> QED BY <1>1, <1>4, <1>5, <1>7, <2>2
  <1> QED BY <1>6, <1>7

(* ... and one slot less is one node less.                                  *)
LEMMA BagLess ==
  ASSUME NEW h, NEW g, Len(h) \in Nat, Len(g) \in Nat, NEW y \in HeldIn(h),
         \A x : Cardinality(Slots(g, x)) =
                  IF x = y THEN Cardinality(Slots(h, x)) - 1 ELSE Cardinality(Slots(h, x))
  PROVE  y \in DOMAIN Bagged(h) /\ Bagged(g) = OneLess(Bagged(h), y)
  <1> USE DEF OneLess
  <1>1. DOMAIN Bagged(h) = HeldIn(h)
        /\ \A e \in HeldIn(h) : Bagged(h)[e] = Cardinality(Slots(h, e))
    BY DEF Bagged
  <1>2. \A x : /\ Cardinality(Slots(h, x)) \in Nat
               /\ x \in HeldIn(h) <=> Cardinality(Slots(h, x)) # 0
               /\ x \in HeldIn(g) <=> Cardinality(Slots(g, x)) # 0
    BY SlotsCount
  <1>3. Bagged(g) = [e \in HeldIn(g) |-> Cardinality(Slots(g, e))]
    BY DEF Bagged
  <1>4. CASE Bagged(h)[y] = 1
    <2>0. Cardinality(Slots(g, y)) = 0
      BY <1>1, <1>4
    <2>1. \A x : x \in HeldIn(g) <=> x \in HeldIn(h) /\ x # y
      BY <1>2, <2>0
    <2>2. HeldIn(g) = HeldIn(h) \ {y}
      BY <2>1
    <2>3. \A e \in HeldIn(h) \ {y} : Cardinality(Slots(g, e)) = Bagged(h)[e]
      BY <1>1
    <2> QED BY <1>1, <1>3, <1>4, <2>2, <2>3
  <1>5. CASE Bagged(h)[y] # 1
    <2>0. Cardinality(Slots(g, y)) # 0
      BY <1>1, <1>2, <1>5
    <2>1. \A x : x \in HeldIn(g) <=> x \in HeldIn(h)
      BY <1>2, <2>0
    <2>2. HeldIn(g) = HeldIn(h)
      BY <2>1
    <2>3. \A e \in HeldIn(h) : Cardinality(Slots(g, e)) =
            IF e = y THEN Bagged(h)[e] - 1 ELSE Bagged(h)[e]
      BY <1>1
    <2> QED BY <1>1, <1>3, <1>5, <2>2, <2>3
  <1> QED BY <1>1, <1>4, <1>5

(* A swap keeps the bag,                                                    *)
LEMMA SwapBag ==
  ASSUME NEW h, NEW g, Len(h) \in Nat, NEW i \in 1..Len(h), NEW j \in 1..Len(h),
         i # j, Swapped(g, h, i, j)
  PROVE  Bagged(g) = Bagged(h)
  <1> SUFFICES ASSUME NEW x PROVE Cardinality(Slots(g, x)) = Cardinality(Slots(h, x))
    BY SameBag DEF Swapped
  <1> USE DEF Swapped
  <1>1. IsFiniteSet(Slots(h, x)) /\ Cardinality(Slots(h, x)) \in Nat
    BY SlotsCount
  <1>2. CASE (x = h[i]) <=> (x = h[j])
    <2>1. Slots(g, x) = Slots(h, x)
      <3>1. ASSUME NEW k \in 1..Len(h) PROVE g[k] = x <=> h[k] = x
        <4>1. CASE k = i
          BY <1>2, <4>1
        <4>2. CASE k = j
          BY <1>2, <4>2
        <4>3. CASE k # i /\ k # j
          BY <4>3
        <4> QED BY <4>1, <4>2, <4>3
      <3> QED BY <3>1 DEF Slots
    <2> QED BY <2>1
  <1>3. ASSUME NEW a \in {i, j}, NEW b \in {i, j}, a # b, x = h[a], x # h[b]
        PROVE  Cardinality(Slots(g, x)) = Cardinality(Slots(h, x))
    <2> DEFINE R == Slots(h, x) \ {a}
    <2>1. a \in Slots(h, x) /\ b \notin R
      BY <1>3 DEF Slots
    <2>2. Slots(g, x) = R \cup {b}
      <3>1. ASSUME NEW k \in 1..Len(h) PROVE g[k] = x <=> (h[k] = x /\ k # a) \/ k = b
        <4>1. CASE k = a
          BY <1>3, <4>1
        <4>2. CASE k = b
          BY <1>3, <4>2
        <4>3. CASE k # a /\ k # b
          BY <1>3, <4>3
        <4> QED BY <4>1, <4>2, <4>3
      <3> QED BY <1>3, <3>1 DEF Slots
    <2>3. IsFiniteSet(R) /\ Cardinality(R) = Cardinality(Slots(h, x)) - 1
      BY <1>1, <2>1, FS_RemoveElement
    <2>4. Cardinality(R \cup {b}) = Cardinality(R) + 1
      BY <2>1, <2>3, FS_AddElement
    <2> QED BY <1>1, <2>2, <2>3, <2>4
  <1> QED BY <1>2, <1>3

(* a node behind the last adds one,                                         *)
LEMMA AppendSlots ==
  ASSUME NEW h, NEW g, Len(h) \in Nat, Len(g) = Len(h) + 1,
         \A k \in 1..Len(h) : g[k] = h[k], NEW y, g[Len(h) + 1] = y, NEW x
  PROVE  Cardinality(Slots(g, x)) =
           IF x = y THEN Cardinality(Slots(h, x)) + 1 ELSE Cardinality(Slots(h, x))
  <1> DEFINE n == Len(h) + 1
  <1>0. n \notin Slots(h, x)
    BY DEF Slots
  <1>1. IsFiniteSet(Slots(h, x)) /\ n \notin Slots(h, x)
    BY <1>0, SlotsCount
  <1>2. \A k : k \in 1..Len(g) <=> k \in 1..Len(h) \/ k = n
    OBVIOUS
  <1>3. CASE x = y
    <2>1. Slots(g, x) = Slots(h, x) \cup {n}
      BY <1>2, <1>3 DEF Slots
    <2>2. Cardinality(Slots(h, x) \cup {n}) = Cardinality(Slots(h, x)) + 1
      BY <1>1, FS_AddElement
    <2> QED BY <1>3, <2>1, <2>2
  <1>4. CASE x # y
    <2>1. Slots(g, x) = Slots(h, x)
      BY <1>2, <1>4 DEF Slots
    <2> QED BY <1>4, <2>1
  <1> QED BY <1>3, <1>4

(* and the last in the place of the root takes the root away.               *)
LEMMA LeafSlots ==
  ASSUME NEW h, NEW g, Len(h) \in Nat, Len(h) >= 1, Len(g) = Len(h) - 1,
         \A k \in 1..(Len(h) - 1) : g[k] = IF k = 1 THEN h[Len(h)] ELSE h[k], NEW x
  PROVE  Cardinality(Slots(g, x)) =
           IF x = h[1] THEN Cardinality(Slots(h, x)) - 1 ELSE Cardinality(Slots(h, x))
  <1> DEFINE n == Len(h)
             R == Slots(h, x) \ {n}
  <1>1. IsFiniteSet(Slots(h, x)) /\ Cardinality(Slots(h, x)) \in Nat
    BY SlotsCount
  <1>2. IsFiniteSet(R)
        /\ Cardinality(R) = IF n \in Slots(h, x) THEN Cardinality(Slots(h, x)) - 1
                            ELSE Cardinality(Slots(h, x))
    BY <1>1, FS_RemoveElement
  <1>3. n \in Slots(h, x) <=> h[n] = x
    BY DEF Slots
  <1>4. CASE n = 1
    <2>1. Slots(g, x) = {} /\ R = {}
      BY <1>4 DEF Slots
    <2>2. Cardinality({}) = 0
      BY FS_EmptySet
    <2> QED BY <1>1, <1>2, <1>3, <1>4, <2>1, <2>2
  <1>5. CASE n > 1
    <2>1. ASSUME NEW k PROVE k \in Slots(g, x) <=> \/ k \in R /\ k # 1
                                                   \/ k = 1 /\ h[n] = x
      <3>1. k \in 1..(n - 1) <=> k \in 1..n /\ k # n
        BY <1>5
      <3>2. k \in Slots(g, x) <=> k \in 1..(n - 1) /\ g[k] = x
        BY DEF Slots
      <3>3. k \in R <=> k \in 1..n /\ h[k] = x /\ k # n
        BY DEF Slots
      <3>4. 1 \in 1..(n - 1)
        BY <1>5
      <3> QED BY <3>1, <3>2, <3>3, <3>4
    <2>2. 1 \in R <=> h[1] = x
      BY <1>5 DEF Slots
    <2>3. CASE h[n] = x
      <3>1. Slots(g, x) = R \cup {1}
        BY <2>1, <2>3
      <3>2. Cardinality(R \cup {1}) = IF 1 \in R THEN Cardinality(R) ELSE Cardinality(R) + 1
        BY <1>2, FS_AddElement
      <3> QED BY <1>1, <1>2, <1>3, <2>2, <2>3, <3>1, <3>2
    <2>4. CASE h[n] # x
      <3>1. Slots(g, x) = R \ {1}
        BY <2>1, <2>4
      <3>2. Cardinality(R \ {1}) = IF 1 \in R THEN Cardinality(R) - 1 ELSE Cardinality(R)
        BY <1>2, FS_RemoveElement
      <3> QED BY <1>1, <1>2, <1>3, <2>2, <2>4, <3>1, <3>2
    <2> QED BY <2>3, <2>4
  <1> QED BY <1>4, <1>5
-----------------------------------------------------------------------------
(* The operations and loops of a heap of nodes from any set N. *)

SwapOf(h, i, j) == [h EXCEPT ![i] = h[j], ![j] = h[i]]
LeafFirst(h) == [k \in 1..Len(h) - 1 |-> IF k = 1 THEN h[Len(h)] ELSE h[k]]

HeapInv(N, h, s, a) ==
  /\ h \in Seq(N)
  /\ s \in {"idle", "up", "down"} /\ a \in Nat \ {0} /\ (s = "idle" => a = 1)
  /\ OrderedBut(h, s, a)

Prices(N) == \A n \in N : n.distance \in Int

(* The nodes of a heap have distances.                                      *)
LEMMA SeqPriced ==
  ASSUME NEW N, Prices(N), NEW h \in Seq(N)
  PROVE  Priced(h) /\ \A k \in 1..Len(h) : h[k] \in N
  <1>1. Len(h) \in Nat /\ \A k \in 1..Len(h) : h[k] \in N
    BY LenProperties, ElementOfSeq
  <1> QED BY <1>1 DEF Priced, Prices

(* A swap is one.                                                           *)
LEMMA SwapOfSwaps ==
  ASSUME NEW N, NEW h \in Seq(N), NEW i \in 1..Len(h), NEW j \in 1..Len(h)
  PROVE  SwapOf(h, i, j) \in Seq(N) /\ Swapped(SwapOf(h, i, j), h, i, j)
  <1>1. h[i] \in N /\ h[j] \in N /\ DOMAIN h = 1..Len(h)
    BY ElementOfSeq, LenProperties
  <1>2. [h EXCEPT ![i] = h[j]] \in Seq(N) /\ Len([h EXCEPT ![i] = h[j]]) = Len(h)
    BY <1>1, ExceptSeq
  <1>3. SwapOf(h, i, j) \in Seq(N) /\ Len(SwapOf(h, i, j)) = Len(h)
    BY <1>1, ExceptSeq DEF SwapOf
  <1>4. /\ SwapOf(h, i, j)[i] = h[j] /\ SwapOf(h, i, j)[j] = h[i]
        /\ \A k \in 1..Len(h) : k # i /\ k # j => SwapOf(h, i, j)[k] = h[k]
    BY <1>1 DEF SwapOf
  <1> QED BY <1>3, <1>4 DEF Swapped

(* push adds a node, and its loop goes up from it;                           *)
LEMMA PushInv ==
  ASSUME NEW N, Prices(N), NEW h, NEW a, HeapInv(N, h, "idle", a), NEW n \in N
  PROVE  /\ HeapInv(N, Append(h, n), "up", Len(h) + 1)
         /\ Len(Append(h, n)) = Len(h) + 1
         /\ Bagged(Append(h, n)) = OneMore(Bagged(h), n)
         /\ \A x : Cardinality(Slots(Append(h, n), x)) =
                    IF x = n THEN Cardinality(Slots(h, x)) + 1 ELSE Cardinality(Slots(h, x))
  <1> DEFINE g == Append(h, n)
  <1>1. h \in Seq(N) /\ Ordered(h)
    BY DEF HeapInv, OrderedBut
  <1>2. Priced(h) /\ Len(h) \in Nat
    BY <1>1, SeqPriced DEF Priced
  <1>3. /\ g \in Seq(N) /\ Len(g) = Len(h) + 1 /\ g[Len(h) + 1] = n
        /\ \A k \in 1..Len(h) : g[k] = h[k]
    BY <1>1, AppendProperties
  <1> HIDE DEF g
  <1>4. OrderedBut(g, "up", Len(h) + 1)
    BY <1>1, <1>2, <1>3, AppendedUp
  <1>5. Len(h) + 1 \in Nat \ {0} /\ Len(g) \in Nat
    BY <1>2, <1>3
  <1>6. HeapInv(N, g, "up", Len(h) + 1)
    BY <1>3, <1>4, <1>5 DEF HeapInv
  <1>7. \A x : Cardinality(Slots(g, x)) =
                  IF x = n THEN Cardinality(Slots(h, x)) + 1 ELSE Cardinality(Slots(h, x))
    BY <1>2, <1>3, AppendSlots
  <1>8. Bagged(g) = OneMore(Bagged(h), n)
    BY <1>2, <1>5, <1>7, BagMore
  <1> QED BY <1>3, <1>6, <1>7, <1>8 DEF g

(* pop takes a cheapest node away, and its loop goes down from the root;    *)
LEMMA PopInv ==
  ASSUME NEW N, Prices(N), NEW h, NEW a, HeapInv(N, h, "idle", a), Len(h) > 0
  PROVE  /\ HeapInv(N, LeafFirst(h), IF Len(h) = 1 THEN "idle" ELSE "down", 1)
         /\ Len(LeafFirst(h)) = Len(h) - 1
         /\ h[1] \in DOMAIN Bagged(h) /\ h[1] \in N
         /\ \A m \in DOMAIN Bagged(h) : h[1].distance <= m.distance
         /\ Bagged(LeafFirst(h)) = OneLess(Bagged(h), h[1])
         /\ \A x : Cardinality(Slots(LeafFirst(h), x)) =
                    IF x = h[1] THEN Cardinality(Slots(h, x)) - 1 ELSE Cardinality(Slots(h, x))
  <1> DEFINE g == LeafFirst(h)
             n == Len(h)
  <1>1. h \in Seq(N) /\ Ordered(h)
    BY DEF HeapInv, OrderedBut
  <1>2. Priced(h) /\ n \in Nat /\ n >= 1 /\ \A k \in 1..n : h[k] \in N
    BY <1>1, SeqPriced DEF Priced
  <1> HIDE DEF n
  <1>3. n - 1 \in Nat /\ \A k \in 1..n - 1 : k \in 1..n
    BY <1>2
  <1>4. n \in 1..n /\ 1 \in 1..n
    BY <1>2
  <1>5. \A k \in 1..n - 1 : (IF k = 1 THEN h[n] ELSE h[k]) \in N
    BY <1>2, <1>3, <1>4
  <1>6. g = [k \in 1..n - 1 |-> IF k = 1 THEN h[n] ELSE h[k]]
    BY DEF LeafFirst, n
  <1>7. \A k \in 1..n - 1 : g[k] = IF k = 1 THEN h[n] ELSE h[k]
    BY <1>6
  <1>8. g \in Seq(N) /\ DOMAIN g = 1..n - 1
    BY <1>3, <1>5, <1>6, IsASeq
  <1> HIDE DEF g
  <1>9. Len(g) = n - 1
    BY <1>8, <1>3, LenProperties
  <1>10. HeapInv(N, g, IF n = 1 THEN "idle" ELSE "down", 1)
    <2>1. CASE n = 1
      <3>1. Ordered(g)
        BY <1>9, <2>1 DEF Ordered
      <3>2. OrderedBut(g, "idle", 1)
        BY <3>1 DEF OrderedBut
      <3> QED BY <1>8, <3>2, <2>1 DEF HeapInv
    <2>2. CASE n # 1
      <3>1. n >= 2 /\ \A k \in 2..(n - 1) : g[k] = h[k]
        BY <1>2, <1>7, <2>2
      <3>2. OrderedBut(g, "down", 1)
        BY <1>1, <1>2, <1>9, <3>1, LeafDown DEF n
      <3> QED BY <1>8, <3>2, <2>2 DEF HeapInv
    <2> QED BY <2>1, <2>2
  <1>11. h[1] \in HeldIn(h)
    BY <1>4 DEF HeldIn, n
  <1>12. \A m \in HeldIn(h) : h[1].distance <= m.distance
    BY <1>1, <1>2, RootLeast DEF HeldIn
  <1>13. \A x : Cardinality(Slots(g, x)) =
                  IF x = h[1] THEN Cardinality(Slots(h, x)) - 1 ELSE Cardinality(Slots(h, x))
    <2>1. Len(h) \in Nat /\ Len(h) >= 1 /\ Len(g) = Len(h) - 1
      BY <1>2, <1>9 DEF n
    <2>2. \A k \in 1..(Len(h) - 1) : g[k] = IF k = 1 THEN h[Len(h)] ELSE h[k]
      BY <1>7 DEF n
    <2> QED BY <2>1, <2>2, LeafSlots
  <1>14. h[1] \in DOMAIN Bagged(h) /\ Bagged(g) = OneLess(Bagged(h), h[1])
    <2>1. Len(h) \in Nat /\ Len(g) \in Nat
      BY <1>2, <1>3, <1>9 DEF n
    <2> QED BY <2>1, <1>11, <1>13, BagLess
  <1>15. DOMAIN Bagged(h) = HeldIn(h)
    BY DEF Bagged
  <1> QED BY <1>2, <1>4, <1>9, <1>10, <1>12, <1>13, <1>14, <1>15 DEF g, n

(* the passes of the loops keep the bag and end in order.                   *)
LEMMA UpInv ==
  ASSUME NEW N, Prices(N), NEW h, NEW a, HeapInv(N, h, "up", a)
  PROVE  /\ a \in 1..Len(h)
         /\ a > 1 /\ h[a].distance < h[a \div 2].distance =>
              /\ HeapInv(N, SwapOf(h, a, a \div 2), "up", a \div 2)
              /\ Len(SwapOf(h, a, a \div 2)) = Len(h)
              /\ Bagged(SwapOf(h, a, a \div 2)) = Bagged(h)
         /\ ~(a > 1 /\ h[a].distance < h[a \div 2].distance) => HeapInv(N, h, "idle", 1)
  <1>1. h \in Seq(N) /\ OrderedBut(h, "up", a) /\ a \in 1..Len(h)
    BY DEF HeapInv, OrderedBut
  <1>2. Priced(h) /\ Len(h) \in Nat
    BY <1>1, SeqPriced DEF Priced
  <1>3. CASE a > 1 /\ h[a].distance < h[a \div 2].distance
    <2> DEFINE p == a \div 2
               g == SwapOf(h, a, p)
    <2>1. p \in 1..Len(h) /\ p # a /\ p \in Nat \ {0}
      BY <1>1, <1>2, <1>3, Parents
    <2>2. g \in Seq(N) /\ Swapped(g, h, a, p)
      BY <1>1, <2>1, SwapOfSwaps
    <2> HIDE DEF g
    <2>3. OrderedBut(g, "up", p)
      BY <1>1, <1>2, <1>3, <2>2, MovedUp
    <2> HIDE DEF p
    <2>4. HeapInv(N, g, "up", p)
      BY <2>1, <2>2, <2>3 DEF HeapInv
    <2>5. Bagged(g) = Bagged(h) /\ Len(g) = Len(h)
      BY <1>1, <1>2, <2>1, <2>2, SwapBag DEF Swapped
    <2> QED BY <1>1, <1>3, <2>4, <2>5 DEF p, g
  <1>4. CASE ~(a > 1 /\ h[a].distance < h[a \div 2].distance)
    <2>1. Ordered(h)
      BY <1>1, <1>2, <1>4, SettledUp
    <2>2. OrderedBut(h, "idle", 1)
      BY <2>1 DEF OrderedBut
    <2>3. HeapInv(N, h, "idle", 1)
      BY <1>1, <2>2 DEF HeapInv
    <2> QED BY <1>1, <1>4, <2>3
  <1> QED BY <1>3, <1>4

(* as the cheaper child's is the one to swap with.                          *)
LEMMA DownInv ==
  ASSUME NEW N, Prices(N), NEW h, NEW a, NEW c, HeapInv(N, h, "down", a),
         c = IF 2 * a + 1 <= Len(h) /\ h[2 * a + 1].distance < h[2 * a].distance
             THEN 2 * a + 1 ELSE 2 * a
  PROVE  /\ a \in 1..Len(h)
         /\ 2 * a <= Len(h) /\ h[c].distance < h[a].distance =>
              /\ c \in 1..Len(h)
              /\ HeapInv(N, SwapOf(h, a, c), "down", c)
              /\ Len(SwapOf(h, a, c)) = Len(h)
              /\ Bagged(SwapOf(h, a, c)) = Bagged(h)
         /\ ~(2 * a <= Len(h) /\ h[c].distance < h[a].distance) => HeapInv(N, h, "idle", 1)
  <1> DEFINE n == Len(h)
  <1>1. h \in Seq(N) /\ OrderedBut(h, "down", a) /\ a \in 1..n
    BY DEF HeapInv, OrderedBut
  <1>2. Priced(h) /\ n \in Nat /\ \A k \in 1..n : h[k].distance \in Int
    BY <1>1, SeqPriced DEF Priced
  <1> HIDE DEF n
  <1>3. \A k \in 2..n : k \div 2 = a => k = 2 * a \/ k = 2 * a + 1
    BY <1>1, <1>2, Parents
  <1>4. (2 * a) \div 2 = a /\ (2 * a + 1) \div 2 = a
    BY <1>1, <1>2, Parents
  <1>5. CASE 2 * a <= n
    <2>1. c = 2 * a \/ (c = 2 * a + 1 /\ 2 * a + 1 <= n)
      BY DEF n
    <2>2. c \in 2..n /\ c # a
      BY <1>1, <1>2, <1>5, <2>1
    <2>3. c \div 2 = a
      BY <1>4, <2>1
    <2>4. 2 * a \in 1..n /\ (2 * a + 1 <= n => 2 * a + 1 \in 1..n)
      BY <1>1, <1>2, <1>5
    <2>5. \A k \in 2..n : k \div 2 = a => h[c].distance <= h[k].distance
      <3> SUFFICES ASSUME NEW k \in 2..n, k \div 2 = a PROVE h[c].distance <= h[k].distance
        OBVIOUS
      <3>1. k \in 1..n /\ h[k].distance \in Int /\ h[2 * a].distance \in Int
        BY <1>2, <2>4
      <3>2. CASE 2 * a + 1 <= n /\ h[2 * a + 1].distance < h[2 * a].distance
        <4>1. c = 2 * a + 1 /\ h[2 * a + 1].distance \in Int
          BY <3>2, <2>4, <1>2 DEF n
        <4>2. k = 2 * a \/ k = c
          BY <1>3, <4>1
        <4> QED BY <3>1, <3>2, <4>1, <4>2
      <3>3. CASE ~(2 * a + 1 <= n /\ h[2 * a + 1].distance < h[2 * a].distance)
        <4>1. c = 2 * a
          BY <3>3 DEF n
        <4>2. CASE k = 2 * a
          BY <3>1, <4>1, <4>2
        <4>3. CASE k = 2 * a + 1
          <5>1. 2 * a + 1 <= n
            BY <4>3, <1>2
          <5>2. ~(h[k].distance < h[2 * a].distance)
            BY <5>1, <3>3, <4>3
          <5> QED BY <3>1, <4>1, <5>2
        <4> QED BY <1>3, <4>2, <4>3
      <3> QED BY <3>2, <3>3
    <2>6. CASE h[c].distance < h[a].distance
      <3> DEFINE g == SwapOf(h, a, c)
      <3>1. c \in 1..n /\ c \in Nat \ {0}
        BY <2>2, <1>2
      <3>2. g \in Seq(N) /\ Swapped(g, h, a, c)
        BY <1>1, <3>1, SwapOfSwaps DEF n
      <3> HIDE DEF g
      <3>3. OrderedBut(g, "down", c)
        BY <1>1, <1>2, <2>2, <2>3, <2>5, <2>6, <3>2, MovedDown DEF n
      <3>4. HeapInv(N, g, "down", c)
        BY <3>1, <3>2, <3>3 DEF HeapInv
      <3>5. Bagged(g) = Bagged(h) /\ Len(g) = n
        BY <1>1, <1>2, <2>2, <3>1, <3>2, SwapBag DEF Swapped, n
      <3> QED BY <1>1, <1>5, <2>6, <3>1, <3>4, <3>5 DEF g, n
    <2>7. CASE ~(h[c].distance < h[a].distance)
      <3>1. h[c].distance \in Int /\ h[a].distance \in Int /\ \A k \in 2..n : h[k].distance \in Int
        BY <1>1, <1>2, <2>2
      <3>2. \A k \in 2..n : k \div 2 = a => h[a].distance <= h[k].distance
        <4> SUFFICES ASSUME NEW k \in 2..n, k \div 2 = a PROVE h[a].distance <= h[k].distance
          OBVIOUS
        <4> DEFINE x == h[a].distance
                   y == h[c].distance
                   z == h[k].distance
        <4>1. y <= z /\ z \in Int /\ y \in Int /\ x \in Int /\ ~(y < x)
          BY <2>5, <2>7, <3>1
        <4> HIDE DEF x, y, z
        <4>2. x <= z
          BY <4>1
        <4> QED BY <4>2 DEF x, z
      <3>3. Ordered(h)
        BY <1>1, <1>2, <3>2, SettledDown DEF n
      <3>4. OrderedBut(h, "idle", 1)
        BY <3>3 DEF OrderedBut
      <3>5. HeapInv(N, h, "idle", 1)
        BY <1>1, <3>4 DEF HeapInv
      <3> QED BY <1>1, <2>7, <3>5 DEF n
    <2> QED BY <2>6, <2>7
  <1>6. CASE ~(2 * a <= n)
    <2>1. \A k \in 2..n : k \div 2 # a
      <3> SUFFICES ASSUME NEW k \in 2..n, k \div 2 = a PROVE FALSE
        OBVIOUS
      <3>1. k = 2 * a \/ k = 2 * a + 1
        BY <1>3
      <3> QED BY <3>1, <1>1, <1>2, <1>6
    <2>2. Ordered(h)
      BY <1>1, <1>2, <2>1, SettledDown DEF n
    <2>3. OrderedBut(h, "idle", 1)
      BY <2>2 DEF OrderedBut
    <2>4. HeapInv(N, h, "idle", 1)
      BY <1>1, <2>3 DEF HeapInv
    <2> QED BY <1>1, <1>6, <2>4 DEF n
  <1> QED BY <1>5, <1>6
-----------------------------------------------------------------------------
(* Proofs: for any cities, routes and capacity, cities leave the heap in    *)
(* the order of their distance, and the heap overflows only in a graph with *)
(* more routes than it has entries.  For that each city is expanded at most *)
(* once, and every entry but the first comes from a route of such a city.   *)

Copies(h, x) == Cardinality(Slots(h, x))
Running == phase \in {"loop", "popped", "relaxing"}

HeapSound ==
  /\ HeapInv(Nodes, heap, sift, at) /\ Len(heap) <= capacity
  /\ root \in Nodes \cup {NoNode} /\ (phase = "building" => root = NoNode)

\* What is held or was popped last has not become cheaper than its city.
NoneBetter ==
  /\ \A x \in HeldIn(heap) : root.distance <= x.distance
  /\ Running => \A x \in HeldIn(heap) : distances[x.city_id] <= x.distance
  /\ phase = "popped" => distances[root.city_id] <= root.distance
  /\ phase = "relaxing" => distances[root.city_id] = root.distance

\* A city has one entry with its present distance at most, and none once it
\* was popped.
OneEach ==
  /\ Running => \A a \in Cities : Copies(heap, Node(a, distances[a])) <= 1
  /\ phase \in {"popped", "relaxing"} =>
       (distances[root.city_id] = root.distance => root \notin HeldIn(heap))

\* Cities whose present distance was popped, which is final then.
Expanded(a) ==
  /\ distances[a] < Unreached /\ Node(a, distances[a]) \notin HeldIn(heap)
  /\ ~(phase = "popped" /\ root = Node(a, distances[a]))

Final == Running => \A a \in Cities : Expanded(a) => distances[a] <= root.distance

\* The routes, counted from a city's oldest, and those that were looked at.
Routes == {r \in Cities \X Nat : r[2] >= 1 /\ r[2] <= Len(edges[r[1]])}
LookedAt ==
  {r \in Routes : Expanded(r[1]) /\
     (phase = "relaxing" /\ r[1] = root.city_id => r[2] > Len(rest))}

StartHeld == \E x \in HeldIn(heap) : x.city_id = Start

Pushes ==
  /\ IsFiniteSet(Routes) /\ Cardinality(Routes) = added /\ added <= MaxRoutes
  /\ phase = "relaxing" => Len(rest) <= Len(edges[root.city_id])
  /\ Running /\ StartHeld => phase = "loop" /\ Len(heap) = 1
  /\ Running => Len(heap) <= Cardinality(LookedAt) + (IF StartHeld THEN 1 ELSE 0)
  /\ CapacityOfRoutes

RouteInv == HeapSound /\ NoneBetter /\ OneEach /\ Final /\ Pushes

(* Equal bags are of as many copies.                                        *)
LEMMA BagCopies ==
  ASSUME NEW h, NEW g, Len(h) \in Nat, Len(g) \in Nat, Bagged(g) = Bagged(h)
  PROVE  HeldIn(g) = HeldIn(h) /\ \A x : Copies(g, x) = Copies(h, x)
  <1>1. DOMAIN Bagged(g) = HeldIn(g) /\ DOMAIN Bagged(h) = HeldIn(h)
    BY DEF Bagged
  <1>2. HeldIn(g) = HeldIn(h)
    BY <1>1
  <1>3. ASSUME NEW x PROVE Copies(g, x) = Copies(h, x)
    <2>1. CASE x \in HeldIn(h)
      <3>1. Bagged(g)[x] = Cardinality(Slots(g, x)) /\ Bagged(h)[x] = Cardinality(Slots(h, x))
        BY <1>2, <2>1 DEF Bagged
      <3> QED BY <3>1 DEF Copies
    <2>2. CASE x \notin HeldIn(h)
      <3>1. Cardinality(Slots(g, x)) = 0 /\ Cardinality(Slots(h, x)) = 0
        BY <1>2, <2>2, SlotsCount
      <3> QED BY <3>1 DEF Copies
    <2> QED BY <2>1, <2>2
  <1> QED BY <1>2, <1>3

(* Only what is held has copies.                                            *)
LEMMA CopiesHeld ==
  ASSUME NEW h, Len(h) \in Nat, NEW x
  PROVE  Copies(h, x) \in Nat /\ (x \in HeldIn(h) <=> Copies(h, x) # 0)
  BY SlotsCount DEF Copies

(* The nodes of run_dijkstra have distances.                                *)
LEMMA RoutePrices == Prices(Nodes)
  BY RoutesAssumption DEF Prices

(* What is held are nodes.                                                  *)
LEMMA HeldNodes ==
  ASSUME HeapSound
  PROVE  /\ heap \in Seq(Nodes) /\ Len(heap) \in Nat /\ HeldIn(heap) \subseteq Nodes
         /\ Len(heap) = 0 => HeldIn(heap) = {}
  <1>1. heap \in Seq(Nodes)
    BY DEF HeapSound, HeapInv
  <1>2. Len(heap) \in Nat /\ \A k \in 1..Len(heap) : heap[k] \in Nodes
    BY <1>1, LenProperties, ElementOfSeq
  <1> QED BY <1>1, <1>2 DEF HeldIn

(* Dijkstra's push, pop and the passes of their loops, on what is held.     *)
LEMMA PushAdds ==
  ASSUME HeapSound, NEW n \in Nodes, push(n), phase' # "building"
  PROVE  /\ HeapSound' /\ root' = root /\ Len(heap') = Len(heap) + 1
         /\ HeldIn(heap') = HeldIn(heap) \cup {n}
         /\ \A x : Copies(heap', x) = IF x = n THEN Copies(heap, x) + 1 ELSE Copies(heap, x)
  <1>1. /\ sift = "idle" /\ heap' = Append(heap, n) /\ Len(heap) + 1 <= capacity
        /\ sift' = "up" /\ at' = Len(heap) + 1 /\ root' = root
    <2>1. sift = "idle" /\ ~Full /\ heap' = Append(heap, n)
          /\ sift' = "up" /\ at' = Len(heap) + 1 /\ root' = root
      BY DEF push, Idle, Size
    <2>2. Len(heap) + 1 <= capacity
      BY <2>1, HeldNodes, RoutesAssumption DEF Full, Size
    <2> QED BY <2>1, <2>2
  <1>2. HeapInv(Nodes, heap, "idle", at)
    BY <1>1 DEF HeapSound
  <1>3. /\ HeapInv(Nodes, heap', "up", Len(heap) + 1) /\ Len(heap') = Len(heap) + 1
        /\ \A x : Cardinality(Slots(heap', x)) =
             IF x = n THEN Cardinality(Slots(heap, x)) + 1 ELSE Cardinality(Slots(heap, x))
    BY <1>1, <1>2, PushInv, RoutePrices
  <1>4. HeapSound'
    BY <1>1, <1>3 DEF HeapSound
  <1>5. \A x : Copies(heap', x) = IF x = n THEN Copies(heap, x) + 1 ELSE Copies(heap, x)
    BY <1>3 DEF Copies
  <1>6. \A x : /\ Copies(heap, x) \in Nat /\ (x \in HeldIn(heap) <=> Copies(heap, x) # 0)
               /\ (x \in HeldIn(heap') <=> Copies(heap', x) # 0)
    <2>1. Len(heap) \in Nat /\ Len(heap') \in Nat
      BY <1>3, HeldNodes
    <2> QED BY <2>1, CopiesHeld
  <1>7. \A x : x \in HeldIn(heap') <=> x \in HeldIn(heap) \/ x = n
    BY <1>5, <1>6
  <1> QED BY <1>1, <1>3, <1>4, <1>5, <1>7

(* pop takes one copy of a cheapest,                                        *)
LEMMA PopTakes ==
  ASSUME HeapSound, pop, phase' # "building"
  PROVE  /\ HeapSound' /\ root' \in Nodes /\ root' \in HeldIn(heap)
         /\ Len(heap) >= 1 /\ Len(heap') = Len(heap) - 1
         /\ \A x \in HeldIn(heap) : root'.distance <= x.distance
         /\ HeldIn(heap') \subseteq HeldIn(heap)
         /\ HeldIn(heap) \subseteq HeldIn(heap') \cup {root'}
         /\ \A x : Copies(heap', x) = IF x = root' THEN Copies(heap, x) - 1 ELSE Copies(heap, x)
  <1>1. /\ sift = "idle" /\ Len(heap) > 0 /\ heap' = LeafFirst(heap) /\ root' = heap[1]
        /\ at' = 1 /\ sift' = IF Len(heap) = 1 THEN "idle" ELSE "down"
    BY DEF pop, Idle, Size, LeafToRoot, LeafFirst
  <1>2. HeapInv(Nodes, heap, "idle", at)
    BY <1>1 DEF HeapSound
  <1>3. /\ HeapInv(Nodes, heap', sift', 1) /\ Len(heap') = Len(heap) - 1
        /\ heap[1] \in DOMAIN Bagged(heap) /\ heap[1] \in Nodes
        /\ \A m \in DOMAIN Bagged(heap) : heap[1].distance <= m.distance
        /\ \A x : Cardinality(Slots(heap', x)) =
             IF x = heap[1] THEN Cardinality(Slots(heap, x)) - 1 ELSE Cardinality(Slots(heap, x))
    BY <1>1, <1>2, PopInv, RoutePrices
  <1>4. Len(heap) \in Nat /\ Len(heap) >= 1 /\ Len(heap') \in Nat /\ Len(heap') <= capacity
    <2>1. Len(heap) \in Nat /\ Len(heap) <= capacity /\ Len(heap) > 0 /\ capacity \in Nat
      BY <1>1, HeldNodes, RoutesAssumption DEF HeapSound
    <2> QED BY <2>1, <1>3
  <1>5. HeapSound'
    BY <1>1, <1>3, <1>4 DEF HeapSound
  <1>6. DOMAIN Bagged(heap) = HeldIn(heap)
    BY DEF Bagged
  <1>7. \A x : Copies(heap', x) = IF x = root' THEN Copies(heap, x) - 1 ELSE Copies(heap, x)
    BY <1>1, <1>3 DEF Copies
  <1>8. \A x : /\ Copies(heap, x) \in Nat /\ (x \in HeldIn(heap) <=> Copies(heap, x) # 0)
               /\ (x \in HeldIn(heap') <=> Copies(heap', x) # 0)
    BY <1>4, CopiesHeld
  <1>9. \A x : x # root' => (x \in HeldIn(heap') <=> x \in HeldIn(heap))
    BY <1>7, <1>8
  <1>10. root' \in HeldIn(heap)
    BY <1>1, <1>3, <1>6
  <1> QED BY <1>1, <1>3, <1>4, <1>5, <1>6, <1>7, <1>9, <1>10

(* and the loops take none.                                                 *)
LEMMA SiftsSame ==
  ASSUME HeapSound, SiftUp \/ SiftDown, phase' = phase
  PROVE  /\ HeapSound' /\ root' = root /\ Len(heap') = Len(heap)
         /\ HeldIn(heap') = HeldIn(heap) /\ \A x : Copies(heap', x) = Copies(heap, x)
  <1>1. /\ HeapInv(Nodes, heap', sift', at') /\ root' = root /\ Len(heap') = Len(heap)
        /\ Bagged(heap') = Bagged(heap)
    <2>1. CASE SiftUp
      <3>1. HeapInv(Nodes, heap, "up", at)
        BY <2>1 DEF HeapSound, SiftUp
      <3>2. CASE at > 1 /\ heap[at].distance < heap[at \div 2].distance
        <4>1. /\ heap' = SwapOf(heap, at, at \div 2) /\ at' = at \div 2
              /\ sift' = "up" /\ root' = root
          BY <2>1, <3>2 DEF SiftUp, Cheaper, Parent, MoveTo, Swap, SwapOf
        <4>2. /\ HeapInv(Nodes, SwapOf(heap, at, at \div 2), "up", at \div 2)
              /\ Len(SwapOf(heap, at, at \div 2)) = Len(heap)
              /\ Bagged(SwapOf(heap, at, at \div 2)) = Bagged(heap)
          BY <3>1, <3>2, UpInv, RoutePrices
        <4> QED BY <4>1, <4>2
      <3>3. CASE ~(at > 1 /\ heap[at].distance < heap[at \div 2].distance)
        <4>1. heap' = heap /\ at' = 1 /\ sift' = "idle" /\ root' = root
          BY <2>1, <3>3 DEF SiftUp, Cheaper, Parent, Settle
        <4>2. HeapInv(Nodes, heap, "idle", 1)
          BY <3>1, <3>3, UpInv, RoutePrices
        <4> QED BY <4>1, <4>2
      <3> QED BY <3>2, <3>3
    <2>2. CASE SiftDown
      <3> DEFINE c == Smallest
      <3>0. c = IF 2 * at + 1 <= Len(heap) /\ heap[2 * at + 1].distance < heap[2 * at].distance
                THEN 2 * at + 1 ELSE 2 * at
        BY DEF Smallest, Size, Cheaper
      <3>1. HeapInv(Nodes, heap, "down", at)
        BY <2>2 DEF HeapSound, SiftDown
      <3>2. CASE 2 * at <= Len(heap) /\ heap[c].distance < heap[at].distance
        <4>1. heap' = SwapOf(heap, at, c) /\ at' = c /\ sift' = "down" /\ root' = root
          BY <2>2, <3>2 DEF SiftDown, Cheaper, Size, MoveTo, Swap, SwapOf
        <4> HIDE DEF c
        <4>2. /\ HeapInv(Nodes, SwapOf(heap, at, c), "down", c)
              /\ Len(SwapOf(heap, at, c)) = Len(heap)
              /\ Bagged(SwapOf(heap, at, c)) = Bagged(heap)
          BY <3>0, <3>1, <3>2, DownInv, RoutePrices
        <4> QED BY <4>1, <4>2
      <3>3. CASE ~(2 * at <= Len(heap) /\ heap[c].distance < heap[at].distance)
        <4>1. heap' = heap /\ at' = 1 /\ sift' = "idle" /\ root' = root
          BY <2>2, <3>3 DEF SiftDown, Cheaper, Size, Settle
        <4> HIDE DEF c
        <4>2. HeapInv(Nodes, heap, "idle", 1)
          BY <3>0, <3>1, <3>3, DownInv, RoutePrices
        <4> QED BY <4>1, <4>2
      <3> QED BY <3>2, <3>3
    <2> QED BY <2>1, <2>2
  <1>2. HeapSound'
    BY <1>1 DEF HeapSound
  <1>3. Len(heap) \in Nat /\ Len(heap') \in Nat
    BY <1>1, HeldNodes
  <1> QED BY <1>1, <1>2, <1>3, BagCopies

(* What a step that looks at one more route, or at none, leaves behind.     *)
LEMMA MoreLookedAt ==
  ASSUME Pushes, LookedAt \subseteq LookedAt', Routes' = Routes
  PROVE  /\ Cardinality(LookedAt) \in Nat /\ Cardinality(LookedAt') \in Nat
         /\ Cardinality(LookedAt) <= Cardinality(LookedAt')
         /\ \A r \in LookedAt' \ LookedAt : Cardinality(LookedAt) + 1 <= Cardinality(LookedAt')
  <1>1. IsFiniteSet(Routes)
    BY DEF Pushes
  <1>2. LookedAt \subseteq Routes /\ LookedAt' \subseteq Routes
    <2>1. LookedAt' \subseteq Routes'
      BY DEF LookedAt
    <2> QED BY <2>1 DEF LookedAt
  <1>3. IsFiniteSet(LookedAt) /\ IsFiniteSet(LookedAt')
    BY <1>1, <1>2, FS_Subset
  <1>4. /\ Cardinality(LookedAt) \in Nat /\ Cardinality(LookedAt') \in Nat
        /\ Cardinality(LookedAt) <= Cardinality(LookedAt')
    BY <1>3, FS_Subset, FS_CardinalityType
  <1>5. ASSUME NEW r \in LookedAt' \ LookedAt
        PROVE  Cardinality(LookedAt) + 1 <= Cardinality(LookedAt')
    <2>1. LookedAt \cup {r} \subseteq LookedAt'
      BY <1>5
    <2>2. Cardinality(LookedAt \cup {r}) = Cardinality(LookedAt) + 1
      BY <1>3, <1>5, FS_AddElement
    <2>3. Cardinality(LookedAt \cup {r}) <= Cardinality(LookedAt')
      BY <1>3, <2>1, FS_Subset
    <2> QED BY <2>2, <2>3
  <1> QED BY <1>4, <1>5

(* The types that the steps use, as numbers.                                *)
LEMMA RouteTypes ==
  ASSUME IndInv, RouteInv
  PROVE  /\ root.distance \in Int
         /\ \A x \in HeldIn(heap) : /\ x.distance \in 0 .. Unreached - 1 /\ x.city_id \in Cities
                                    /\ x = Node(x.city_id, x.distance)
         /\ distances \in [Cities -> 0 .. Unreached] /\ Unreached \in Nat
         /\ \A a \in Cities : Len(edges[a]) \in Nat
         /\ Len(rest) \in Nat
         /\ \A x : Copies(heap, x) \in Nat /\ (x \in HeldIn(heap) <=> Copies(heap, x) # 0)
         /\ phase \in {"popped", "relaxing"} =>
              /\ root.city_id \in Cities /\ root.distance \in 0 .. Unreached - 1
              /\ root = Node(root.city_id, root.distance)
  <1>1. HeldIn(heap) \subseteq Nodes /\ Len(heap) \in Nat /\ root \in Nodes \cup {NoNode}
    BY HeldNodes DEF RouteInv, HeapSound
  <1>2. root.distance \in Int
    BY <1>1, NodeProperties DEF NoNode
  <1>3. \A x : Copies(heap, x) \in Nat /\ (x \in HeldIn(heap) <=> Copies(heap, x) # 0)
    BY <1>1, CopiesHeld
  <1>4. \A a \in Cities : Len(edges[a]) \in Nat
    BY LenProperties DEF IndInv, Types
  <1>5. Len(rest) \in Nat /\ distances \in [Cities -> 0 .. Unreached]
    BY LenProperties DEF IndInv, Types
  <1>6. phase \in {"popped", "relaxing"} => root \in Nodes
    BY DEF IndInv, Current
  <1> QED BY <1>1, <1>2, <1>3, <1>4, <1>5, <1>6, NodeProperties

(* The invariant holds before any route is added.                           *)
LEMMA RouteInit == Init => RouteInv
  <1> SUFFICES ASSUME Init PROVE RouteInv
    OBVIOUS
  <1>1. /\ heap = <<>> /\ sift = "idle" /\ at = 1 /\ root = NoNode /\ phase = "building"
        /\ edges = [c \in Cities |-> <<>>] /\ added = 0
    BY DEF Init, HeapInit
  <1>2. heap \in Seq(Nodes) /\ Len(heap) = 0
    BY <1>1, EmptySeq
  <1>3. HeldIn(heap) = {} /\ Ordered(heap)
    BY <1>2 DEF HeldIn, Ordered
  <1>4. HeapSound
    <2>1. HeapInv(Nodes, heap, sift, at)
      BY <1>1, <1>2, <1>3 DEF HeapInv, OrderedBut
    <2> QED BY <1>1, <1>2, <2>1, RoutesAssumption DEF HeapSound
  <1>5. NoneBetter /\ OneEach /\ Final
    BY <1>1, <1>3 DEF NoneBetter, OneEach, Final, Running
  <1>6. Pushes
    <2>1. \A c \in Cities : Len(edges[c]) = 0
      BY <1>1
    <2>2. Routes = {}
      BY <2>1 DEF Routes
    <2> QED BY <1>1, <2>2, FS_EmptySet, RoutesAssumption DEF Pushes, Running, CapacityOfRoutes
  <1> QED BY <1>4, <1>5, <1>6 DEF RouteInv

(* Before the run, routes are counted and the heap is empty.                *)
LEMMA RouteAdd ==
  ASSUME IndInv, RouteInv, NEW from \in Cities, NEW to \in Cities, NEW km \in Kms,
         add_route(from, to, km)
  PROVE  RouteInv'
  <1>1. /\ phase = "building" /\ added < MaxRoutes /\ phase' \in {"building", "exited"}
        /\ heap' = heap /\ sift' = sift /\ at' = at /\ root' = root
        /\ distances' = distances /\ rest' = rest
    BY DEF add_route, heapVars
  <1>2. heap = <<>> /\ Len(heap) = 0 /\ HeldIn(heap) = {}
    BY <1>1 DEF IndInv, Fresh, HeldIn
  <1>3. HeapSound' /\ NoneBetter' /\ OneEach' /\ Final'
    BY <1>1, <1>2 DEF RouteInv, HeapSound, NoneBetter, OneEach, Final, Running, HeldIn
  <1>4. CapacityOfRoutes'
    BY <1>1, <1>2, RoutesAssumption DEF CapacityOfRoutes, Size
  <1>5. IsFiniteSet(Routes) /\ Cardinality(Routes) = added /\ added \in Nat
    BY FS_CardinalityType DEF RouteInv, Pushes
  <1>6. IsFiniteSet(Routes') /\ Cardinality(Routes') = added' /\ added' <= MaxRoutes
    <2>1. CASE ValidRoute(from, to, km)
      <3>1. edges' = [edges EXCEPT ![from] = <<Edge(to, km)>> \o @] /\ added' = added + 1
        BY <2>1 DEF add_route
      <3>2. edges \in [Cities -> Seq(EdgeSet)] /\ edges[from] \in Seq(EdgeSet)
        BY DEF IndInv, Types
      <3>3. Len(edges'[from]) = Len(edges[from]) + 1 /\ Len(edges[from]) \in Nat
        <4>1. edges'[from] = <<Edge(to, km)>> \o edges[from]
          BY <3>1, <3>2
        <4>2. Edge(to, km) \in EdgeSet
          BY <2>1, RoutesAssumption DEF ValidRoute, Edge, EdgeSet
        <4>3. <<Edge(to, km)>> \in Seq(EdgeSet) /\ Len(<<Edge(to, km)>>) = 1
          BY <4>2
        <4> QED BY <3>2, <4>1, <4>3, ConcatProperties, LenProperties
      <3>4. \A c \in Cities : c # from => edges'[c] = edges[c]
        BY <3>1, <3>2
      <3> DEFINE new == <<from, Len(edges[from]) + 1>>
      <3>5. Routes' = Routes \cup {new}
        <4>1. \A c \in Cities, k \in Nat :
                <<c, k>> \in Routes' <=> <<c, k>> \in Routes \/ <<c, k>> = new
          <5> SUFFICES ASSUME NEW c \in Cities, NEW k \in Nat
                       PROVE <<c, k>> \in Routes' <=> <<c, k>> \in Routes \/ <<c, k>> = new
            OBVIOUS
          <5>1. <<c, k>> \in Routes <=> k >= 1 /\ k <= Len(edges[c])
            BY DEF Routes
          <5>2. <<c, k>> \in Routes' <=> k >= 1 /\ k <= Len(edges'[c])
            BY DEF Routes
          <5>3. <<c, k>> = new <=> c = from /\ k = Len(edges[from]) + 1
            OBVIOUS
          <5>4. CASE c = from
            BY <3>3, <5>1, <5>2, <5>3, <5>4
          <5>5. CASE c # from
            BY <3>4, <5>1, <5>2, <5>3, <5>5
          <5> QED BY <5>4, <5>5
        <4>2. /\ Routes \subseteq Cities \X Nat /\ Routes' \subseteq Cities \X Nat
              /\ new \in Cities \X Nat
          BY <3>3 DEF Routes
        <4> HIDE DEF new
        <4>3. \A r \in Cities \X Nat : r \in Routes' <=> r \in Routes \/ r = new
          BY <4>1
        <4> QED BY <4>2, <4>3
      <3>6. new \notin Routes
        BY <3>3 DEF Routes
      <3> HIDE DEF new
      <3>7. IsFiniteSet(Routes \cup {new}) /\ Cardinality(Routes \cup {new}) = added + 1
        BY <1>5, <3>6, FS_AddElement
      <3> QED BY <1>1, <1>5, <3>1, <3>5, <3>7, RoutesAssumption
    <2>2. CASE ~ValidRoute(from, to, km)
      <3>1. edges' = edges /\ added' = added
        BY <2>2 DEF add_route
      <3>2. Routes' = Routes
        BY <3>1 DEF Routes
      <3> QED BY <1>5, <3>1, <3>2 DEF RouteInv, Pushes
    <2> QED BY <2>1, <2>2
  <1>7. Pushes'
    BY <1>1, <1>4, <1>6 DEF Pushes, Running
  <1> QED BY <1>3, <1>7 DEF RouteInv

(* main's city is pushed first.                                             *)
LEMMA RouteStart ==
  ASSUME IndInv, RouteInv, StartRun
  PROVE  RouteInv'
  <1>1. /\ phase = "building" /\ phase' = "loop" /\ edges' = edges /\ added' = added
        /\ distances' = [distances EXCEPT ![Start] = 0] /\ push(Node(Start, 0))
    BY DEF StartRun
  <1>2. Node(Start, 0) \in Nodes /\ Start \in Cities
    BY NodeProperties
  <1>3. /\ heap = <<>> /\ distances = [c \in Cities |-> Unreached] /\ HeldIn(heap) = {}
        /\ Len(heap) = 0 /\ root = NoNode
    BY <1>1 DEF IndInv, Fresh, HeldIn, RouteInv, HeapSound
  <1>4. /\ HeapSound' /\ root' = root /\ Len(heap') = 1
        /\ HeldIn(heap') = {Node(Start, 0)}
        /\ \A x : Copies(heap', x) =
             IF x = Node(Start, 0) THEN Copies(heap, x) + 1 ELSE Copies(heap, x)
    <2>1. HeapSound
      BY DEF RouteInv
    <2> QED BY <1>1, <1>2, <1>3, <2>1, PushAdds
  <1>5. distances'[Start] = 0 /\ \A a \in Cities : a # Start => distances'[a] = Unreached
    BY <1>1, <1>2, <1>3
  <1>6. NoneBetter'
    BY <1>1, <1>3, <1>4, <1>5 DEF NoneBetter, NoNode, Node
  <1>7. OneEach'
    <2>1. \A x : Copies(heap, x) = 0
      BY <1>3, CopiesHeld
    <2>2. \A x : Copies(heap', x) <= 1
      BY <1>4, <2>1
    <2> QED BY <1>1, <2>2 DEF OneEach
  <1>8. \A a \in Cities : ~Expanded(a)'
    BY <1>4, <1>5, NodeProperties DEF Expanded
  <1>9. Pushes'
    <2>1. Routes' = Routes /\ LookedAt' = {}
      <3>1. Routes' = Routes
        BY <1>1 DEF Routes
      <3> QED BY <1>8, <3>1 DEF LookedAt, Routes
    <2>2. StartHeld'
      BY <1>4 DEF StartHeld, Node
    <2>3. Cardinality({}) = 0
      BY FS_EmptySet
    <2> QED BY <1>1, <1>4, <2>1, <2>2, <2>3 DEF RouteInv, Pushes, CapacityOfRoutes
  <1> QED BY <1>4, <1>6, <1>7, <1>8, <1>9 DEF RouteInv, Final

(* A pass of a sifting loop changes nothing that counts.                    *)
LEMMA RouteSift ==
  ASSUME IndInv, RouteInv, Sift
  PROVE  RouteInv'
  <1>1. /\ SiftUp \/ SiftDown
        /\ phase' = phase /\ edges' = edges /\ added' = added
        /\ distances' = distances /\ rest' = rest
    BY DEF Sift
  <1>2. /\ HeapSound' /\ root' = root /\ Len(heap') = Len(heap)
        /\ HeldIn(heap') = HeldIn(heap) /\ \A x : Copies(heap', x) = Copies(heap, x)
    BY <1>1, SiftsSame DEF RouteInv
  <1>3. NoneBetter' /\ OneEach'
    BY <1>1, <1>2 DEF RouteInv, NoneBetter, OneEach, Running
  <1>4. \A a : Expanded(a)' <=> Expanded(a)
    BY <1>1, <1>2 DEF Expanded
  <1>5. Final'
    BY <1>1, <1>2, <1>4 DEF RouteInv, Final, Running
  <1>6. Routes' = Routes /\ (StartHeld' <=> StartHeld)
    BY <1>1, <1>2 DEF Routes, StartHeld
  <1>7. LookedAt' = LookedAt
    BY <1>1, <1>2, <1>4, <1>6 DEF LookedAt
  <1>8. Pushes'
    BY <1>1, <1>2, <1>6, <1>7 DEF RouteInv, Pushes, Running, CapacityOfRoutes, Size
  <1> QED BY <1>2, <1>3, <1>5, <1>8 DEF RouteInv

(* pop takes the cheapest; if that is the start's there was no other.       *)
LEMMA RouteExtract ==
  ASSUME IndInv, RouteInv, Extract
  PROVE  RouteInv'
  <1>1. /\ phase = "loop" /\ pop /\ phase' = "popped"
        /\ edges' = edges /\ added' = added /\ distances' = distances /\ rest' = rest
    BY DEF Extract
  <1>2. /\ HeapSound' /\ root' \in Nodes /\ root' \in HeldIn(heap)
        /\ Len(heap) >= 1 /\ Len(heap') = Len(heap) - 1 /\ Len(heap) \in Nat
        /\ \A x \in HeldIn(heap) : root'.distance <= x.distance
        /\ HeldIn(heap') \subseteq HeldIn(heap)
        /\ HeldIn(heap) \subseteq HeldIn(heap') \cup {root'}
        /\ \A x : Copies(heap', x) = IF x = root' THEN Copies(heap, x) - 1 ELSE Copies(heap, x)
    BY <1>1, PopTakes, HeldNodes DEF RouteInv
  <1>3. /\ root'.city_id \in Cities /\ root'.distance \in 0 .. Unreached - 1
        /\ root' = Node(root'.city_id, root'.distance)
    BY <1>2, NodeProperties
  <1>4. NoneBetter'
    <2>1. \A x \in HeldIn(heap) : distances[x.city_id] <= x.distance
      BY <1>1 DEF RouteInv, NoneBetter, Running
    <2> QED BY <1>1, <1>2, <2>1 DEF NoneBetter
  <1>5. OneEach'
    <2>1. \A a \in Cities : Copies(heap, Node(a, distances[a])) <= 1
      BY <1>1 DEF RouteInv, OneEach, Running
    <2>2. \A x : Copies(heap, x) \in Nat
      BY RouteTypes
    <2>3. \A a \in Cities : Copies(heap', Node(a, distances[a])) <= 1
      <3> SUFFICES ASSUME NEW a \in Cities PROVE Copies(heap', Node(a, distances[a])) <= 1
        OBVIOUS
      <3> DEFINE x == Node(a, distances[a])
      <3>1. Copies(heap, x) <= 1 /\ Copies(heap, x) \in Nat
        BY <2>1, <2>2
      <3>2. Copies(heap', x) = IF x = root' THEN Copies(heap, x) - 1 ELSE Copies(heap, x)
        BY <1>2
      <3> HIDE DEF x
      <3>3. Copies(heap', x) <= 1
        BY <3>1, <3>2
      <3> QED BY <3>3 DEF x
    <2>4. ASSUME distances[root'.city_id] = root'.distance PROVE root' \notin HeldIn(heap')
      <3>1. Copies(heap, root') <= 1 /\ Copies(heap, root') \in Nat
        BY <1>3, <2>1, <2>2, <2>4
      <3>2. Copies(heap', root') = Copies(heap, root') - 1
        BY <1>2
      <3>3. Len(heap') \in Nat
        BY <1>2
      <3>4. Copies(heap', root') \in Nat /\ (root' \in HeldIn(heap') <=> Copies(heap', root') # 0)
        BY <3>3, CopiesHeld
      <3> QED BY <3>1, <3>2, <3>4
    <2> QED BY <1>1, <2>3, <2>4 DEF OneEach
  <1>6. \A a \in Cities : Expanded(a)' <=> Expanded(a)
    BY <1>1, <1>2 DEF Expanded
  <1>7. Final'
    <2>1. /\ root.distance \in Int /\ root'.distance \in Int
          /\ distances \in [Cities -> 0 .. Unreached]
      BY <1>3, RouteTypes
    <2>2. root.distance <= root'.distance
      BY <1>2 DEF RouteInv, NoneBetter
    <2>3. \A a \in Cities : Expanded(a) => distances[a] <= root.distance
      BY <1>1 DEF RouteInv, Final, Running
    <2>4. \A a \in Cities : Expanded(a) => distances[a] <= root'.distance
      BY <2>1, <2>2, <2>3
    <2> QED BY <1>1, <1>6, <2>4 DEF Final
  <1>8. Pushes'
    <2>1. Routes' = Routes /\ LookedAt' = LookedAt
      <3>1. Routes' = Routes
        BY <1>1 DEF Routes
      <3>2. \A r \in Routes : r[1] \in Cities
        BY DEF Routes
      <3> QED BY <1>1, <1>6, <3>1, <3>2 DEF LookedAt
    <2>2. ~StartHeld'
      <3>1. CASE StartHeld
        <4>1. Len(heap) = 1
          BY <1>1, <3>1 DEF RouteInv, Pushes, Running
        <4>2. Len(heap') = 0
          BY <1>2, <4>1
        <4> QED BY <4>2 DEF StartHeld, HeldIn
      <3>2. CASE ~StartHeld
        BY <1>2, <3>2 DEF StartHeld
      <3> QED BY <3>1, <3>2
    <2>3. Cardinality(LookedAt) \in Nat
      BY <2>1, MoreLookedAt DEF RouteInv
    <2>4. Len(heap) <= Cardinality(LookedAt) + (IF StartHeld THEN 1 ELSE 0)
      BY <1>1 DEF RouteInv, Pushes, Running
    <2>5. Len(heap') <= Cardinality(LookedAt')
      <3> DEFINE k == Cardinality(LookedAt)
      <3>1. k \in Nat /\ Len(heap) <= k + (IF StartHeld THEN 1 ELSE 0)
        BY <2>3, <2>4
      <3> HIDE DEF k
      <3>2. Len(heap) <= k + 1
        BY <3>1, <1>2
      <3>3. Len(heap') <= k
        BY <1>2, <3>1, <3>2
      <3> QED BY <2>1, <3>3 DEF k
    <2>6. CapacityOfRoutes'
      BY <1>1 DEF CapacityOfRoutes
    <2>7. Running /\ Running'
      BY <1>1 DEF Running
    <2>8. Len(heap') <= Cardinality(LookedAt') + (IF StartHeld' THEN 1 ELSE 0)
      BY <2>1, <2>2, <2>3, <2>5, <1>2
    <2>9. IsFiniteSet(Routes') /\ Cardinality(Routes') = added' /\ added' <= MaxRoutes
      BY <1>1, <2>1 DEF RouteInv, Pushes
    <2> QED BY <1>1, <2>2, <2>6, <2>8, <2>9 DEF Pushes
  <1> QED BY <1>2, <1>4, <1>5, <1>7, <1>8 DEF RouteInv

(* An entry that was bettered is passed over.                               *)
LEMMA RouteContinue ==
  ASSUME IndInv, RouteInv, Continue
  PROVE  RouteInv'
  <1>1. /\ phase = "popped" /\ Stale /\ phase' = "loop"
        /\ heap' = heap /\ sift' = sift /\ at' = at /\ root' = root
        /\ edges' = edges /\ added' = added /\ distances' = distances /\ rest' = rest
    BY DEF Continue, heapVars
  <1>2. Running /\ Running'
    BY <1>1 DEF Running
  <1>3. HeapSound' /\ NoneBetter' /\ OneEach'
    BY <1>1, <1>2 DEF RouteInv, HeapSound, NoneBetter, OneEach
  <1>4. \A a \in Cities : root # Node(a, distances[a])
    <2>1. root.distance > distances[root.city_id] /\ root.distance \in Int
      BY <1>1, RouteTypes DEF Stale
    <2>2. root.city_id \in Cities /\ distances[root.city_id] \in Int
      BY <1>1, RouteTypes
    <2>3. ASSUME NEW a \in Cities, root = Node(a, distances[a]) PROVE FALSE
      <3>1. root.city_id = a /\ root.distance = distances[a]
        BY <2>3 DEF Node
      <3> QED BY <2>1, <2>2, <3>1
    <2> QED BY <2>3
  <1>5. \A a \in Cities : Expanded(a)' <=> Expanded(a)
    BY <1>1, <1>4 DEF Expanded
  <1>6. Final'
    BY <1>1, <1>2, <1>5 DEF RouteInv, Final
  <1>7. Routes' = Routes /\ LookedAt' = LookedAt /\ (StartHeld' <=> StartHeld)
    <2>1. Routes' = Routes /\ (StartHeld' <=> StartHeld)
      BY <1>1 DEF Routes, StartHeld
    <2>2. \A r \in Routes : r[1] \in Cities
      BY DEF Routes
    <2> QED BY <1>1, <1>5, <2>1, <2>2 DEF LookedAt
  <1>8. Pushes'
    BY <1>1, <1>2, <1>7 DEF RouteInv, Pushes, CapacityOfRoutes
  <1> QED BY <1>3, <1>6, <1>8 DEF RouteInv

(* The city of any other entry is expanded, for the first time.             *)
LEMMA RouteExpand ==
  ASSUME IndInv, RouteInv, Expand
  PROVE  RouteInv'
  <1>1. /\ phase = "popped" /\ ~Stale /\ phase' = "relaxing" /\ rest' = edges[root.city_id]
        /\ heap' = heap /\ sift' = sift /\ at' = at /\ root' = root
        /\ edges' = edges /\ added' = added /\ distances' = distances
    BY DEF Expand, heapVars
  <1>2. Running /\ Running'
    BY <1>1 DEF Running
  <1>3. distances[root.city_id] = root.distance
    <2>1. root.distance \in Int /\ distances[root.city_id] \in Int
      BY <1>1, RouteTypes
    <2>2. distances[root.city_id] <= root.distance /\ ~(root.distance > distances[root.city_id])
      BY <1>1 DEF RouteInv, NoneBetter, Stale
    <2> QED BY <2>1, <2>2
  <1>4. HeapSound' /\ NoneBetter' /\ OneEach'
    BY <1>1, <1>2, <1>3 DEF RouteInv, HeapSound, NoneBetter, OneEach
  <1>5. \A a \in Cities : a # root.city_id => (Expanded(a)' <=> Expanded(a))
    BY <1>1 DEF Expanded, Node
  <1>6. Final'
    <2>1. \A a \in Cities : a # root.city_id /\ Expanded(a)' => distances[a] <= root.distance
      BY <1>2, <1>5 DEF RouteInv, Final
    <2>2. root.distance \in Int
      BY RouteTypes
    <2>3. distances[root.city_id] <= root.distance
      BY <1>3, <2>2
    <2> QED BY <1>1, <2>1, <2>3 DEF Final
  <1>7. ~Expanded(root.city_id)
    BY <1>1, <1>3, RouteTypes DEF Expanded
  <1>8. Routes' = Routes /\ (StartHeld' <=> StartHeld)
    BY <1>1 DEF Routes, StartHeld
  <1>9. LookedAt \subseteq LookedAt'
    <2> SUFFICES ASSUME NEW r \in LookedAt PROVE r \in LookedAt'
      OBVIOUS
    <2>1. r \in Routes /\ Expanded(r[1]) /\ r[1] \in Cities
      BY DEF LookedAt, Routes
    <2>2. r[1] # root.city_id /\ r[1] # root'.city_id
      BY <1>1, <1>7, <2>1
    <2>3. Expanded(r[1])'
      BY <1>5, <2>1, <2>2
    <2> QED BY <1>8, <2>1, <2>2, <2>3 DEF LookedAt
  <1>10. Pushes'
    <2>1. Len(heap) <= Cardinality(LookedAt) + (IF StartHeld THEN 1 ELSE 0) /\ ~StartHeld
      BY <1>1, <1>2 DEF RouteInv, Pushes
    <2>2. /\ Cardinality(LookedAt) \in Nat /\ Cardinality(LookedAt') \in Nat
          /\ Cardinality(LookedAt) <= Cardinality(LookedAt')
      BY <1>8, <1>9, MoreLookedAt DEF RouteInv
    <2>3. Len(heap) \in Nat
      BY HeldNodes DEF RouteInv
    <2>4. Len(heap') <= Cardinality(LookedAt') + (IF StartHeld' THEN 1 ELSE 0)
      <3> DEFINE k == Cardinality(LookedAt)
                 m == Cardinality(LookedAt')
      <3>1. Len(heap) <= k + 0 /\ k \in Nat /\ m \in Nat /\ k <= m
        BY <2>1, <2>2
      <3> HIDE DEF k, m
      <3>2. Len(heap) <= m + 0
        BY <2>3, <3>1
      <3> QED BY <1>1, <1>8, <2>1, <3>2 DEF m
    <2>5. Len(rest') <= Len(edges'[root'.city_id])
      BY <1>1, RouteTypes
    <2>6. IsFiniteSet(Routes') /\ Cardinality(Routes') = added' /\ added' <= MaxRoutes
      BY <1>1, <1>8 DEF RouteInv, Pushes
    <2> QED BY <1>1, <1>8, <2>1, <2>4, <2>5, <2>6 DEF Pushes, CapacityOfRoutes
  <1> QED BY <1>4, <1>6, <1>10 DEF RouteInv

(* What holds while the routes of a city are looked at.                     *)
LEMMA RelaxingFacts ==
  ASSUME IndInv, RouteInv, phase = "relaxing"
  PROVE  /\ Running /\ ~StartHeld /\ root.city_id \in Cities
         /\ distances[root.city_id] = root.distance /\ root.distance \in 0 .. Unreached - 1
         /\ root \notin HeldIn(heap) /\ root = Node(root.city_id, distances[root.city_id])
         /\ Expanded(root.city_id)
         /\ Len(rest) \in Nat /\ Len(edges[root.city_id]) \in Nat
         /\ Len(rest) <= Len(edges[root.city_id])
         /\ Len(heap) \in Nat /\ Len(heap) <= Cardinality(LookedAt) + 0
  <1>1. Running
    BY DEF Running
  <1>2. ~StartHeld
    BY <1>1 DEF RouteInv, Pushes
  <1>3. /\ root.city_id \in Cities /\ root.distance \in 0 .. Unreached - 1
        /\ root = Node(root.city_id, root.distance)
        /\ Len(rest) \in Nat /\ Len(edges[root.city_id]) \in Nat /\ Unreached \in Nat
    BY RouteTypes
  <1>4. distances[root.city_id] = root.distance
    BY DEF RouteInv, NoneBetter
  <1>5. root \notin HeldIn(heap)
    BY <1>4 DEF RouteInv, OneEach
  <1>6. Expanded(root.city_id)
    BY <1>3, <1>4, <1>5 DEF Expanded
  <1>7. Len(rest) <= Len(edges[root.city_id]) /\ Len(heap) <= Cardinality(LookedAt) + 0
    BY <1>1, <1>2 DEF RouteInv, Pushes
  <1>8. Len(heap) \in Nat
    BY HeldNodes DEF RouteInv
  <1> QED BY <1>1, <1>2, <1>3, <1>4, <1>5, <1>6, <1>7, <1>8

\* The route that is looked at.
Present == <<root.city_id, Len(rest)>>

(* It is a route that was not looked at before.                             *)
LEMMA PresentRoute ==
  ASSUME IndInv, RouteInv, Relaxing
  PROVE  /\ phase = "relaxing" /\ Present \in Routes /\ Present \notin LookedAt
         /\ Len(Tail(rest)) = Len(rest) - 1 /\ Len(rest) >= 1
  <1>1. phase = "relaxing" /\ rest # <<>> /\ rest \in Seq(EdgeSet)
    BY DEF Relaxing, IndInv, Types
  <1>2. Len(rest) \in Nat /\ Len(rest) >= 1 /\ Len(Tail(rest)) = Len(rest) - 1
    BY <1>1, HeadTailProperties, EmptySeq, LenProperties
  <1>3. Present \in Routes
    BY <1>1, <1>2, RelaxingFacts DEF Present, Routes
  <1>4. Present \notin LookedAt
    <2>1. ~(Len(rest) > Len(rest))
      BY <1>2
    <2> QED BY <1>1, <2>1 DEF Present, LookedAt
  <1> QED BY <1>1, <1>2, <1>3, <1>4

(* A city that becomes nearer was not expanded before, and its new entry is
   one for the route that was looked at.                                    *)
LEMMA RouteImprove ==
  ASSUME IndInv, RouteInv, Improve
  PROVE  RouteInv'
  <1>1. /\ Relaxing /\ Improves /\ phase = "relaxing" /\ phase' = phase
        /\ edges' = edges /\ added' = added /\ rest' = Tail(rest)
        /\ distances' = [distances EXCEPT ![Destination] = new_distance]
        /\ push(Node(Destination, new_distance))
    BY DEF Improve, Relaxing
  <1>2. PICK b \in Cities, n \in 0 .. Unreached - 1 :
          /\ b = Destination /\ n = new_distance /\ b # root.city_id /\ b # Start
          /\ n < distances[b] /\ n = distances[root.city_id] + Head(rest).weight
    BY <1>1, BetterDistance
  <1>3. /\ distances' \in [Cities -> 0 .. Unreached]
        /\ \A a \in Cities : distances'[a] <= distances[a]
        /\ \A a \in Cities : a # b => distances'[a] = distances[a]
        /\ distances'[b] = n
    BY <1>1, <1>2, BetterKeeps
  <1>4. /\ Running /\ ~StartHeld /\ root.city_id \in Cities
        /\ distances[root.city_id] = root.distance /\ root.distance \in 0 .. Unreached - 1
        /\ root \notin HeldIn(heap) /\ root = Node(root.city_id, distances[root.city_id])
        /\ Expanded(root.city_id)
        /\ Len(rest) <= Len(edges[root.city_id]) /\ Len(edges[root.city_id]) \in Nat
        /\ Len(heap) \in Nat /\ Len(heap) <= Cardinality(LookedAt) + 0
    BY <1>1, RelaxingFacts
  <1>5. n > root.distance /\ Unreached \in Nat
    <2>1. Head(rest).weight \in Nat \ {0}
      BY <1>1, HeadOfRest DEF EdgeSet
    <2> QED BY <1>2, <1>4, <2>1, NodeProperties
  <1>6. Node(b, n) \in Nodes /\ Node(b, n) # root
    BY <1>2, NodeProperties DEF Node
  <1>7. /\ HeapSound' /\ root' = root /\ Len(heap') = Len(heap) + 1
        /\ HeldIn(heap') = HeldIn(heap) \cup {Node(b, n)}
        /\ \A x : Copies(heap', x) =
             IF x = Node(b, n) THEN Copies(heap, x) + 1 ELSE Copies(heap, x)
    BY <1>1, <1>2, <1>6, PushAdds DEF RouteInv
  <1>8. \A x \in HeldIn(heap) : /\ x.distance \in Int /\ x.city_id \in Cities
                                /\ distances[x.city_id] <= x.distance
    BY <1>4, RouteTypes DEF RouteInv, NoneBetter
  <1>9. Node(b, n) \notin HeldIn(heap)
    <2> SUFFICES ASSUME Node(b, n) \in HeldIn(heap) PROVE FALSE
      OBVIOUS
    <2>1. distances[b] <= n /\ distances[b] \in Int
      BY <1>8, RouteTypes DEF Node
    <2> QED BY <1>2, <2>1
  <1>10. NoneBetter'
    <2>1. \A x \in HeldIn(heap') : root.distance <= x.distance
      <3>1. Node(b, n).distance = n
        BY DEF Node
      <3>2. \A x \in HeldIn(heap) : root.distance <= x.distance
        BY DEF RouteInv, NoneBetter
      <3> QED BY <1>4, <1>5, <1>7, <3>1, <3>2
    <2>2. \A x \in HeldIn(heap') : distances'[x.city_id] <= x.distance
      <3> SUFFICES ASSUME NEW x \in HeldIn(heap') PROVE distances'[x.city_id] <= x.distance
        OBVIOUS
      <3>1. CASE x = Node(b, n)
        BY <1>2, <1>3, <3>1 DEF Node
      <3>2. CASE x \in HeldIn(heap)
        <4> DEFINE c == x.city_id
        <4>1. c \in Cities /\ distances[c] <= x.distance /\ x.distance \in Int
          BY <1>8, <3>2
        <4>2. distances'[c] <= distances[c] /\ distances'[c] \in Int /\ distances[c] \in Int
          BY <1>3, <4>1, RouteTypes
        <4> HIDE DEF c
        <4>3. distances'[c] <= x.distance
          BY <4>1, <4>2
        <4> QED BY <4>3 DEF c
      <3> QED BY <1>7, <3>1, <3>2
    <2>3. distances'[root.city_id] = root.distance
      BY <1>2, <1>3, <1>4
    <2> QED BY <1>1, <1>7, <2>1, <2>2, <2>3 DEF NoneBetter
  <1>11. OneEach'
    <2>1. ASSUME NEW a \in Cities PROVE Copies(heap', Node(a, distances'[a])) <= 1
      <3>1. CASE a = b
        <4>1. Copies(heap, Node(b, n)) = 0
          BY <1>9, RouteTypes
        <4>2. Copies(heap', Node(b, n)) = Copies(heap, Node(b, n)) + 1
          BY <1>7
        <4> QED BY <1>3, <3>1, <4>1, <4>2
      <3>2. CASE a # b
        <4>1. distances'[a] = distances[a] /\ Node(a, distances[a]) # Node(b, n)
          BY <1>3, <3>2 DEF Node
        <4>2. Copies(heap', Node(a, distances[a])) = Copies(heap, Node(a, distances[a]))
          BY <1>7, <4>1
        <4>3. Copies(heap, Node(a, distances[a])) <= 1
          BY <1>4 DEF RouteInv, OneEach
        <4> QED BY <4>1, <4>2, <4>3
      <3> QED BY <3>1, <3>2
    <2>2. root' \notin HeldIn(heap')
      BY <1>4, <1>6, <1>7
    <2> QED BY <2>1, <2>2 DEF OneEach
  <1>12. ~Expanded(b)
    <2>1. ASSUME Expanded(b) PROVE FALSE
      <3>1. distances[b] <= root.distance
        BY <1>4, <2>1 DEF RouteInv, Final
      <3>2. distances[b] \in Int /\ root.distance \in Int
        BY RouteTypes
      <3> QED BY <1>2, <1>5, <3>1, <3>2
    <2> QED BY <2>1
  <1>13. \A a \in Cities : Expanded(a)' <=> Expanded(a)
    <2> SUFFICES ASSUME NEW a \in Cities PROVE Expanded(a)' <=> Expanded(a)
      OBVIOUS
    <2>1. CASE a = b
      <3>1. ~Expanded(b)'
        BY <1>3, <1>7 DEF Expanded
      <3> QED BY <1>12, <2>1, <3>1
    <2>2. CASE a # b
      <3>1. distances'[a] = distances[a] /\ Node(a, distances[a]) # Node(b, n)
        BY <1>3, <2>2 DEF Node
      <3> QED BY <1>1, <1>7, <3>1 DEF Expanded
    <2> QED BY <2>1, <2>2
  <1>14. Final'
    <2>1. \A a \in Cities : Expanded(a) => distances'[a] <= root.distance
      <3>1. \A a \in Cities : Expanded(a) => distances[a] <= root.distance
        BY <1>4 DEF RouteInv, Final
      <3> QED BY <1>3, <1>12, <3>1
    <2> QED BY <1>7, <1>13, <2>1 DEF Final
  <1>15. Routes' = Routes
    BY <1>1 DEF Routes
  <1>16. /\ Present \in Routes /\ Present \notin LookedAt
         /\ Len(rest') = Len(rest) - 1 /\ Len(rest) >= 1 /\ Len(rest) \in Nat
    BY <1>1, PresentRoute, RouteTypes
  <1>17. LookedAt \subseteq LookedAt' /\ Present \in LookedAt'
    <2>1. ASSUME NEW r \in LookedAt PROVE r \in LookedAt'
      <3>1. r \in Routes /\ Expanded(r[1]) /\ r[1] \in Cities /\ r[2] \in Nat
            /\ (r[1] = root.city_id => r[2] > Len(rest))
        BY <1>1 DEF LookedAt, Routes
      <3>2. r[1] = root.city_id => r[2] > Len(rest')
        BY <1>16, <3>1
      <3>3. Expanded(r[1])'
        BY <1>13, <3>1
      <3> QED BY <1>7, <1>15, <3>1, <3>2, <3>3 DEF LookedAt
    <2>2. Present \in LookedAt'
      <3>1. PICK c \in Cities, k \in Nat : c = root.city_id /\ k = Len(rest)
        BY <1>4, <1>16
      <3>2. Present = <<c, k>> /\ <<c, k>> \in Routes'
        BY <1>15, <1>16, <3>1 DEF Present
      <3>3. Expanded(c)' /\ k > Len(rest')
        BY <1>4, <1>13, <1>16, <3>1
      <3>4. <<c, k>>[1] = c /\ <<c, k>>[2] = k
        OBVIOUS
      <3>5. <<c, k>> \in LookedAt'
        BY <3>2, <3>3, <3>4 DEF LookedAt
      <3> QED BY <3>2, <3>5
    <2> QED BY <2>1, <2>2
  <1>18. Pushes'
    <2>1. /\ Cardinality(LookedAt) \in Nat /\ Cardinality(LookedAt') \in Nat
          /\ Cardinality(LookedAt) + 1 <= Cardinality(LookedAt')
      BY <1>15, <1>16, <1>17, MoreLookedAt DEF RouteInv
    <2>2. ~StartHeld'
      BY <1>2, <1>4, <1>7 DEF StartHeld, Node
    <2>3. Len(heap') <= Cardinality(LookedAt') + (IF StartHeld' THEN 1 ELSE 0)
      <3> DEFINE k == Cardinality(LookedAt)
                 m == Cardinality(LookedAt')
      <3>1. Len(heap) <= k + 0 /\ k \in Nat /\ m \in Nat /\ k + 1 <= m /\ Len(heap) \in Nat
        BY <1>4, <2>1
      <3> HIDE DEF k, m
      <3>2. Len(heap) + 1 <= m + 0
        BY <3>1
      <3> QED BY <1>7, <2>2, <3>2 DEF m
    <2>4. Len(rest') <= Len(edges'[root'.city_id])
      BY <1>1, <1>4, <1>7, <1>16
    <2>5. IsFiniteSet(Routes') /\ Cardinality(Routes') = added' /\ added' <= MaxRoutes
      BY <1>1, <1>15 DEF RouteInv, Pushes
    <2> QED BY <1>1, <2>2, <2>3, <2>4, <2>5 DEF Pushes, CapacityOfRoutes
  <1> QED BY <1>7, <1>10, <1>11, <1>14, <1>18 DEF RouteInv

(* A full heap has an entry for each of as many other routes.               *)
LEMMA RouteFull ==
  ASSUME IndInv, RouteInv, HeapFull
  PROVE  RouteInv'
  <1>1. /\ Relaxing /\ phase' = "exited"
        /\ heap' = heap /\ sift' = sift /\ at' = at /\ root' = root
        /\ edges' = edges /\ added' = added
    BY DEF HeapFull, heapVars
  <1>2. ~Running'
    BY <1>1 DEF Running
  <1>3. HeapSound' /\ NoneBetter' /\ OneEach' /\ Final'
    BY <1>1, <1>2 DEF RouteInv, HeapSound, NoneBetter, OneEach, Final
  <1>4. Routes' = Routes
    BY <1>1 DEF Routes
  <1>5. Len(heap) < added
    <2> DEFINE k == Cardinality(LookedAt)
    <2>1. Present \in Routes /\ Present \notin LookedAt /\ phase = "relaxing"
      BY <1>1, PresentRoute
    <2>2. IsFiniteSet(Routes) /\ Cardinality(Routes) = added
      BY DEF RouteInv, Pushes
    <2>3. LookedAt \subseteq Routes \ {Present}
      BY <2>1 DEF LookedAt
    <2>4. /\ IsFiniteSet(Routes \ {Present}) /\ Cardinality(Routes \ {Present}) = added - 1
          /\ added \in Nat
      BY <2>1, <2>2, FS_RemoveElement, FS_CardinalityType
    <2>5. k <= added - 1 /\ k \in Nat
      BY <2>3, <2>4, FS_Subset, FS_CardinalityType
    <2>6. Len(heap) <= k + 0 /\ Len(heap) \in Nat
      BY <2>1, RelaxingFacts
    <2> HIDE DEF k
    <2> QED BY <2>4, <2>5, <2>6
  <1>6. CapacityOfRoutes'
    <2>1. Len(heap) = capacity => added > capacity
      BY <1>5
    <2> QED BY <1>1, <2>1 DEF CapacityOfRoutes, Size
  <1>7. IsFiniteSet(Routes') /\ Cardinality(Routes') = added' /\ added' <= MaxRoutes
    BY <1>1, <1>4 DEF RouteInv, Pushes
  <1>8. Pushes'
    BY <1>1, <1>2, <1>6, <1>7 DEF Pushes
  <1> QED BY <1>3, <1>8 DEF RouteInv

(* A route that is passed over was looked at, too.                          *)
LEMMA RoutePassOver ==
  ASSUME IndInv, RouteInv, PassOver
  PROVE  RouteInv'
  <1>1. /\ Relaxing /\ phase = "relaxing" /\ phase' = phase /\ rest' = Tail(rest)
        /\ heap' = heap /\ sift' = sift /\ at' = at /\ root' = root
        /\ edges' = edges /\ added' = added /\ distances' = distances
    BY DEF PassOver, Relaxing, heapVars
  <1>2. /\ Running /\ ~StartHeld
        /\ Len(rest) <= Len(edges[root.city_id]) /\ Len(edges[root.city_id]) \in Nat
        /\ Len(heap) \in Nat /\ Len(heap) <= Cardinality(LookedAt) + 0
    BY <1>1, RelaxingFacts
  <1>3. HeapSound' /\ NoneBetter' /\ OneEach'
    BY <1>1 DEF RouteInv, HeapSound, NoneBetter, OneEach, Running
  <1>4. \A a : Expanded(a)' <=> Expanded(a)
    BY <1>1 DEF Expanded
  <1>5. Final'
    BY <1>1, <1>4 DEF RouteInv, Final, Running
  <1>6. Routes' = Routes /\ (StartHeld' <=> StartHeld)
    BY <1>1 DEF Routes, StartHeld
  <1>7. Len(rest') = Len(rest) - 1 /\ Len(rest) >= 1 /\ Len(rest) \in Nat
    BY <1>1, PresentRoute, RouteTypes
  <1>8. LookedAt \subseteq LookedAt'
    <2>1. ASSUME NEW r \in LookedAt PROVE r \in LookedAt'
      <3>1. r \in Routes /\ Expanded(r[1]) /\ r[2] \in Nat
            /\ (r[1] = root.city_id => r[2] > Len(rest))
        BY <1>1 DEF LookedAt, Routes
      <3>2. r[1] = root.city_id => r[2] > Len(rest')
        BY <1>7, <3>1
      <3>3. Expanded(r[1])'
        BY <1>4, <3>1
      <3> QED BY <1>1, <1>6, <3>1, <3>2, <3>3 DEF LookedAt
    <2> QED BY <2>1
  <1>9. Len(heap') <= Cardinality(LookedAt') + (IF StartHeld' THEN 1 ELSE 0)
    <2> DEFINE k == Cardinality(LookedAt)
               m == Cardinality(LookedAt')
    <2>1. k \in Nat /\ m \in Nat /\ k <= m
      BY <1>6, <1>8, MoreLookedAt DEF RouteInv
    <2>2. Len(heap) <= k + 0 /\ Len(heap) \in Nat
      BY <1>2
    <2> HIDE DEF k, m
    <2>3. Len(heap) <= m + 0
      BY <2>1, <2>2
    <2> QED BY <1>1, <1>2, <1>6, <2>3 DEF m
  <1>10. Pushes'
    <2>1. Len(rest') <= Len(edges'[root'.city_id])
      BY <1>1, <1>2, <1>7
    <2>2. IsFiniteSet(Routes') /\ Cardinality(Routes') = added' /\ added' <= MaxRoutes
      BY <1>1, <1>6 DEF RouteInv, Pushes
    <2> QED BY <1>1, <1>2, <1>6, <1>9, <2>1, <2>2 DEF Pushes, CapacityOfRoutes
  <1> QED BY <1>3, <1>5, <1>10 DEF RouteInv

(* With the last of a city's routes all of them were looked at.             *)
LEMMA RouteNext ==
  ASSUME IndInv, RouteInv, NextEntry
  PROVE  RouteInv'
  <1>1. /\ phase = "relaxing" /\ phase' = "loop" /\ rest' = rest
        /\ heap' = heap /\ sift' = sift /\ at' = at /\ root' = root
        /\ edges' = edges /\ added' = added /\ distances' = distances
    BY DEF NextEntry, heapVars
  <1>2. /\ Running /\ Running' /\ ~StartHeld
        /\ Len(heap) \in Nat /\ Len(heap) <= Cardinality(LookedAt) + 0
    BY <1>1, RelaxingFacts DEF Running
  <1>3. HeapSound' /\ NoneBetter' /\ OneEach'
    BY <1>1, <1>2 DEF RouteInv, HeapSound, NoneBetter, OneEach
  <1>4. \A a : Expanded(a)' <=> Expanded(a)
    BY <1>1 DEF Expanded
  <1>5. Final'
    BY <1>1, <1>2, <1>4 DEF RouteInv, Final
  <1>6. Routes' = Routes /\ (StartHeld' <=> StartHeld)
    BY <1>1 DEF Routes, StartHeld
  <1>7. LookedAt \subseteq LookedAt'
    BY <1>1, <1>4, <1>6 DEF LookedAt
  <1>8. Len(heap') <= Cardinality(LookedAt') + (IF StartHeld' THEN 1 ELSE 0)
    <2> DEFINE k == Cardinality(LookedAt)
               m == Cardinality(LookedAt')
    <2>1. k \in Nat /\ m \in Nat /\ k <= m
      BY <1>6, <1>7, MoreLookedAt DEF RouteInv
    <2>2. Len(heap) <= k + 0 /\ Len(heap) \in Nat
      BY <1>2
    <2> HIDE DEF k, m
    <2>3. Len(heap) <= m + 0
      BY <2>1, <2>2
    <2> QED BY <1>1, <1>2, <1>6, <2>3 DEF m
  <1>9. Pushes'
    <2>2. IsFiniteSet(Routes') /\ Cardinality(Routes') = added' /\ added' <= MaxRoutes
      BY <1>1, <1>6 DEF RouteInv, Pushes
    <2> QED BY <1>1, <1>2, <1>6, <1>8, <2>2 DEF Pushes, CapacityOfRoutes
  <1> QED BY <1>3, <1>5, <1>9 DEF RouteInv

(* The end of run_dijkstra.                                                 *)
LEMMA RouteFinish ==
  ASSUME IndInv, RouteInv, Finish
  PROVE  RouteInv'
  <1>1. /\ phase' = "done"
        /\ heap' = heap /\ sift' = sift /\ at' = at /\ root' = root
        /\ edges' = edges /\ added' = added
    BY DEF Finish, heapVars
  <1>2. ~Running'
    BY <1>1 DEF Running
  <1>3. HeapSound' /\ NoneBetter' /\ OneEach' /\ Final'
    BY <1>1, <1>2 DEF RouteInv, HeapSound, NoneBetter, OneEach, Final
  <1>4. Routes' = Routes
    BY <1>1 DEF Routes
  <1>5. Pushes'
    BY <1>1, <1>2, <1>4 DEF RouteInv, Pushes, CapacityOfRoutes
  <1> QED BY <1>3, <1>5 DEF RouteInv

(* Every step of the program keeps the invariant.                           *)
LEMMA RouteNextInd == IndInv /\ RouteInv /\ [Next]_vars => RouteInv'
  <1> SUFFICES ASSUME IndInv, RouteInv, [Next]_vars PROVE RouteInv'
    OBVIOUS
  <1>1. CASE UNCHANGED vars
    <2>1. /\ heap' = heap /\ sift' = sift /\ at' = at /\ root' = root /\ phase' = phase
          /\ edges' = edges /\ added' = added /\ distances' = distances /\ rest' = rest
      BY <1>1 DEF vars, heapVars
    <2>2. HeapSound' /\ NoneBetter' /\ OneEach'
      BY <2>1 DEF RouteInv, HeapSound, NoneBetter, OneEach, Running
    <2>3. \A a : Expanded(a)' <=> Expanded(a)
      BY <2>1 DEF Expanded
    <2>4. Final' /\ Routes' = Routes /\ (StartHeld' <=> StartHeld)
      BY <2>1, <2>3 DEF RouteInv, Final, Running, Routes, StartHeld
    <2>5. LookedAt' = LookedAt
      BY <2>1, <2>3, <2>4 DEF LookedAt
    <2>6. Pushes'
      BY <2>1, <2>4, <2>5 DEF RouteInv, Pushes, Running, CapacityOfRoutes, Size
    <2> QED BY <2>2, <2>4, <2>6 DEF RouteInv
  <1>2. CASE \E from, to \in Cities, km \in Kms : add_route(from, to, km)
    BY <1>2, RouteAdd
  <1>3. CASE run_dijkstra
    BY <1>3, RouteStart, RouteSift, RouteExtract, RouteContinue, RouteExpand, RouteImprove,
       RouteFull, RoutePassOver, RouteNext, RouteFinish DEF run_dijkstra
  <1>4. CASE Terminated
    BY <1>1, <1>4 DEF Terminated
  <1> QED BY <1>1, <1>2, <1>3, <1>4 DEF Next

(* The invariant says what the property does.                               *)
LEMMA RouteInvOrders == IndInv /\ RouteInv => TypeOK /\ PopsInOrder /\ CapacityOfRoutes
  <1> SUFFICES ASSUME IndInv, RouteInv PROVE TypeOK /\ PopsInOrder /\ CapacityOfRoutes
    OBVIOUS
  <1>1. /\ heap \in Seq(Nodes) /\ sift \in {"idle", "up", "down"} /\ at \in Nat \ {0}
        /\ (sift = "idle" => at = 1) /\ OrderedBut(heap, sift, at)
        /\ Len(heap) <= capacity /\ root \in Nodes \cup {NoNode}
    BY DEF RouteInv, HeapSound, HeapInv
  <1>2. /\ Len(heap) \in Nat /\ capacity \in Nat \ {0}
        /\ \A k \in 1..Len(heap) : heap[k].distance \in Int
    BY <1>1, SeqPriced, RoutePrices, RoutesAssumption DEF Priced
  <1>3. at \in 1 .. capacity
    <2>1. CASE sift = "idle"
      BY <1>1, <1>2, <2>1
    <2>2. CASE sift # "idle"
      <3>1. at \in 1..Len(heap)
        BY <1>1, <2>2 DEF OrderedBut
      <3> QED BY <1>1, <1>2, <3>1
    <2> QED BY <2>1, <2>2
  <1>4. HeapTypeOK
    BY <1>1, <1>3 DEF HeapTypeOK, Size
  <1>5. HeapOrdered
    <2> SUFFICES ASSUME NEW k \in 2 .. Len(heap)
                 PROVE \/ ~(heap[k].distance < heap[k \div 2].distance)
                       \/ sift = "up" /\ k = at
                       \/ sift = "down" /\ k \div 2 = at
      BY DEF HeapOrdered, Size, Cheaper, Parent
    <2>1. k \in 1..Len(heap) /\ k \div 2 \in 1..Len(heap)
      BY <1>2, Parents
    <2>2. CASE Below(heap, k)
      BY <1>2, <2>1, <2>2 DEF Below
    <2>3. CASE ~Below(heap, k)
      BY <1>1, <2>3 DEF OrderedBut, Ordered
    <2> QED BY <2>2, <2>3
  <1>6. added \in 0 .. MaxRoutes
    <2>1. added \in Nat /\ added <= MaxRoutes
      BY FS_CardinalityType DEF RouteInv, Pushes
    <2> QED BY <2>1, RoutesAssumption
  <1>7. TypeOK
    BY <1>4, <1>5, <1>6 DEF TypeOK, IndInv, Types
  <1>8. PopsInOrder
    BY DEF RouteInv, NoneBetter, HeldIn, PopsInOrder, Size
  <1> QED BY <1>7, <1>8 DEF RouteInv, Pushes
-----------------------------------------------------------------------------
(* The programs, one of which runs. *)

CONSTANTS
  Malaga, Sevilla, Granada, Cordoba,
  HeapNodes, HeapCapacity  \* of the heap under any calls

ASSUME HeapAssumption == \A n \in HeapNodes : n.distance \in Int

VARIABLES
  program,
  hHeap, hSift, hAt, hRoot,
  rKind, rOp, rHead, rNext, rPrev, rValue, rData, rLive, rCreated, rCurrent, rBehind,
  rTarget, rAnswer, rExpected,
  aKind, aGiven, aTarget, aArray, aLeft, aRight, aAnswer, aDone

FewNodes == [city_id : {1, 2}, distance : 0 .. 2]
RouteNodes == [city_id : Cities, distance : 0 .. Unreached - 1]
OtherCities == Permutations(Cities \ {Start})

\* The heap under any calls.
Heap == INSTANCE MinHeap WITH
  Nodes <- HeapNodes, capacity <- HeapCapacity,
  heap <- hHeap, sift <- hSift, at <- hAt, root <- hRoot
heapAlone == <<hHeap, hSift, hAt, hRoot>>

Wires == INSTANCE Rewiring WITH
  MaxNodes <- 5, Values <- {1, 2}, kind <- rKind, op <- rOp, head <- rHead, next <- rNext,
  prev <- rPrev, value <- rValue, data <- rData, live <- rLive, created <- rCreated,
  current <- rCurrent, behind <- rBehind, target <- rTarget, answer <- rAnswer,
  expected <- rExpected
wireVars == <<rKind, rOp, rHead, rNext, rPrev, rValue, rData, rLive, rCreated, rCurrent,
              rBehind, rTarget, rAnswer, rExpected>>

Scans == INSTANCE ArrayScans WITH
  MaxLength <- 4, MaxNeedle <- 2, kind <- aKind, given <- aGiven, target <- aTarget,
  a <- aArray, left <- aLeft, right <- aRight, answer <- aAnswer, done <- aDone
scanVars == <<aKind, aGiven, aTarget, aArray, aLeft, aRight, aAnswer, aDone>>

Programs == {"routes", "heap", "wires", "scans"}
suite == <<program, vars, heapAlone, wireVars, scanVars>>

\* What a program chooses at the start is of no matter to the others.
SuiteInit ==
  /\ program \in Programs
  /\ Init /\ Heap!HeapInit
  /\ Wires!Init /\ (program # "wires" => rKind = "merge")
  /\ IF program = "scans" THEN Scans!Init
     ELSE /\ aKind = "area" /\ aTarget = 0 /\ aLeft = 0 /\ aRight = 0 /\ aAnswer = 0
          /\ aGiven = <<>> /\ aArray = <<>> /\ aDone = FALSE

\* A program that was not picked does nothing.
SuiteNext ==
  /\ UNCHANGED program
  /\ \/ program = "routes" /\ Next
     \/ program # "routes" /\ UNCHANGED vars
  /\ \/ program = "heap" /\ Heap!HeapNext
     \/ program # "heap" /\ UNCHANGED heapAlone
  /\ \/ program = "wires" /\ Wires!Next
     \/ program # "wires" /\ UNCHANGED wireVars
  /\ \/ program = "scans" /\ Scans!Next
     \/ program # "scans" /\ UNCHANGED scanVars

SuiteSpec == SuiteInit /\ [][SuiteNext]_suite
-----------------------------------------------------------------------------
(* However routes are added and whatever entries the heap has kept, cities come
   out of it in the order of their distance, and it overflows only in a graph
   with more routes than it has entries (Dijkstra.c, Dijkstra-MinHeap.c).   *)
RoutesInOrder ==
  program = "routes" => TypeOK /\ PopsInOrder /\ CapacityOfRoutes

(* The heap of Dijkstra-MinHeap.c implements a priority queue, in whatever
   order push and pop are called.                                           *)
HeapIsQueue == Heap!ImplementsQueue

(* However the lists of pointer_problems/ and their like are added to,
   reversed, merged and shortened, they lead to the nodes they should, no node
   slips away on the way, and none is freed that a list leads to.           *)
ListsRewired ==
  program = "wires" => /\ Wires!TypeOK /\ Wires!LeadsToExpected /\ Wires!NothingSlips
                       /\ Wires!MiddleIsSecond /\ Wires!NothingLost /\ Wires!MisuseOfEmpty

(* The programs of problems/ that go through an array in place overwrite
   nothing they have not read and end with what a definition of the result
   over the whole array gives.                                              *)
ScansRight ==
  program = "scans" => /\ Scans!TypeOK /\ Scans!WritesBehindReads /\ Scans!NothingPassedBy
                       /\ Scans!Decided /\ Scans!Rearranged /\ Scans!FilterKept
-----------------------------------------------------------------------------
(* Proofs: the heap under any calls is a priority queue, for any nodes and  *)
(* capacity.                                                                *)

HeapsOwn == HeapInv(HeapNodes, hHeap, hSift, hAt)

(* What the heap holds is what its slots do.                                *)
LEMMA ContentsBagged == Heap!Contents = Bagged(hHeap) /\ Heap!Contents' = Bagged(hHeap')
  <1>1. \A S : Heap!Cardinality(S) = Cardinality(S)
    BY DEF Heap!Cardinality, Cardinality
  <1>2. Heap!Contents =
          [n \in {hHeap[k] : k \in 1..Len(hHeap)} |->
             Heap!Cardinality({k \in 1..Len(hHeap) : hHeap[k] = n})]
    BY DEF Heap!Contents, Heap!Held, Heap!Size
  <1>3. Bagged(hHeap) =
          [n \in {hHeap[k] : k \in 1..Len(hHeap)} |->
             Cardinality({k \in 1..Len(hHeap) : hHeap[k] = n})]
    BY DEF Bagged, HeldIn, Slots
  <1>4. Heap!Contents' =
          [n \in {hHeap'[k] : k \in 1..Len(hHeap')} |->
             Heap!Cardinality({k \in 1..Len(hHeap') : hHeap'[k] = n})]
    BY DEF Heap!Contents, Heap!Held, Heap!Size
  <1>5. Bagged(hHeap') =
          [n \in {hHeap'[k] : k \in 1..Len(hHeap')} |->
             Cardinality({k \in 1..Len(hHeap') : hHeap'[k] = n})]
    BY DEF Bagged, HeldIn, Slots
  <1> QED BY <1>1, <1>2, <1>3, <1>4, <1>5

(* Nothing is held at first.                                                *)
LEMMA HeapInits == Heap!HeapInit => HeapsOwn /\ Heap!Queue!Init
  <1> SUFFICES ASSUME Heap!HeapInit PROVE HeapsOwn /\ Heap!Queue!Init
    OBVIOUS
  <1>1. hHeap = <<>> /\ hSift = "idle" /\ hAt = 1 /\ hRoot = Heap!NoNode
    BY DEF Heap!HeapInit
  <1>2. hHeap \in Seq(HeapNodes) /\ Len(hHeap) = 0
    BY <1>1, EmptySeq
  <1>3. Ordered(hHeap)
    BY <1>2 DEF Ordered
  <1>4. HeapsOwn
    BY <1>1, <1>2, <1>3 DEF HeapsOwn, HeapInv, OrderedBut
  <1>5. HeldIn(hHeap) = {}
    BY <1>2 DEF HeldIn
  <1>6. Bagged(hHeap) = [e \in {} |-> 1]
    BY <1>5 DEF Bagged
  <1>7. Heap!Contents = Heap!Queue!EmptyBag
    BY <1>6, ContentsBagged DEF Heap!Queue!EmptyBag, Heap!Queue!SetToBag
  <1> QED BY <1>1, <1>4, <1>7 DEF Heap!Queue!Init

(* Every push inserts, every pop removes a cheapest, sifting does neither.  *)
LEMMA HeapSteps ==
  ASSUME HeapsOwn, Heap!HeapNext
  PROVE  HeapsOwn' /\ (Heap!Queue!Next \/ UNCHANGED <<Heap!Contents, hRoot>>)
  <1> DEFINE h == hHeap
             C == Bagged(hHeap)
  <1>0. Prices(HeapNodes) /\ hHeap \in Seq(HeapNodes)
    BY HeapAssumption DEF Prices, HeapsOwn, HeapInv
  <1>1. Heap!Contents = Bagged(hHeap) /\ Heap!Contents' = Bagged(hHeap')
    BY ContentsBagged
  <1>2. ASSUME NEW n \in HeapNodes, Heap!push(n)
        PROVE  HeapsOwn' /\ Heap!Queue!Next
    <2>1. /\ hSift = "idle" /\ hHeap' = Append(hHeap, n)
          /\ hSift' = "up" /\ hAt' = Len(hHeap) + 1 /\ hRoot' = hRoot
      BY <1>2 DEF Heap!push, Heap!Idle, Heap!Size
    <2>2. HeapInv(HeapNodes, hHeap, "idle", hAt)
      BY <2>1 DEF HeapsOwn
    <2>3. /\ HeapInv(HeapNodes, Append(hHeap, n), "up", Len(hHeap) + 1)
          /\ Bagged(Append(hHeap, n)) = OneMore(Bagged(hHeap), n)
      BY <1>0, <2>2, PushInv
    <2>4. HeapsOwn'
      BY <2>1, <2>3 DEF HeapsOwn
    <2>5. Heap!Contents' = OneMore(Heap!Contents, n)
      BY <1>1, <2>1, <2>3
    <2>6. Heap!Queue!Insert(n)
      BY <2>1, <2>5 DEF Heap!Queue!Insert, Heap!Queue!OneNode!BagAdd, OneMore
    <2>7. n \in HeapNodes \cup {Heap!NoNode}
      BY <1>2
    <2> QED BY <2>4, <2>6, <2>7 DEF Heap!Queue!Next
  <1>3. CASE Heap!pop
    <2>1. /\ hSift = "idle" /\ Len(hHeap) > 0 /\ hRoot' = hHeap[1]
          /\ hHeap' = LeafFirst(hHeap) /\ hAt' = 1
          /\ hSift' = IF Len(hHeap) = 1 THEN "idle" ELSE "down"
      BY <1>3 DEF Heap!pop, Heap!Idle, Heap!Size, Heap!LeafToRoot, LeafFirst
    <2>2. HeapInv(HeapNodes, hHeap, "idle", hAt)
      BY <2>1 DEF HeapsOwn
    <2>3. /\ HeapInv(HeapNodes, LeafFirst(hHeap), IF Len(hHeap) = 1 THEN "idle" ELSE "down", 1)
          /\ hHeap[1] \in DOMAIN Bagged(hHeap) /\ hHeap[1] \in HeapNodes
          /\ \A m \in DOMAIN Bagged(hHeap) : hHeap[1].distance <= m.distance
          /\ Bagged(LeafFirst(hHeap)) = OneLess(Bagged(hHeap), hHeap[1])
      BY <1>0, <2>1, <2>2, PopInv
    <2>4. HeapsOwn'
      BY <2>1, <2>3 DEF HeapsOwn
    <2>5. Heap!Contents' = OneLess(Heap!Contents, hHeap[1])
      BY <1>1, <2>1, <2>3
    <2>6. /\ hHeap[1] \in DOMAIN Heap!Contents
          /\ \A m \in DOMAIN Heap!Contents : hHeap[1].distance <= m.distance
      BY <1>1, <2>3
    <2>7. Heap!Queue!Remove(hHeap[1])
      BY <2>1, <2>5, <2>6 DEF Heap!Queue!Remove, Heap!Queue!OneNode!BagRemove, OneLess
    <2>8. hHeap[1] \in HeapNodes \cup {Heap!NoNode}
      BY <2>3
    <2> QED BY <2>4, <2>7, <2>8 DEF Heap!Queue!Next
  <1>4. CASE Heap!SiftUp
    <2>1. HeapInv(HeapNodes, hHeap, "up", hAt)
      BY <1>4 DEF HeapsOwn, Heap!SiftUp
    <2>2. CASE hAt > 1 /\ hHeap[hAt].distance < hHeap[hAt \div 2].distance
      <3>1. /\ hHeap' = SwapOf(hHeap, hAt, hAt \div 2) /\ hAt' = hAt \div 2
            /\ hSift' = "up" /\ hRoot' = hRoot
        BY <1>4, <2>2 DEF Heap!SiftUp, Heap!Cheaper, Heap!Parent, Heap!MoveTo, Heap!Swap, SwapOf
      <3>2. /\ HeapInv(HeapNodes, SwapOf(hHeap, hAt, hAt \div 2), "up", hAt \div 2)
            /\ Bagged(SwapOf(hHeap, hAt, hAt \div 2)) = Bagged(hHeap)
        BY <1>0, <2>1, <2>2, UpInv
      <3> QED BY <1>1, <3>1, <3>2 DEF HeapsOwn
    <2>3. CASE ~(hAt > 1 /\ hHeap[hAt].distance < hHeap[hAt \div 2].distance)
      <3>1. hHeap' = hHeap /\ hAt' = 1 /\ hSift' = "idle" /\ hRoot' = hRoot
        BY <1>4, <2>3 DEF Heap!SiftUp, Heap!Cheaper, Heap!Parent, Heap!Settle
      <3>2. HeapInv(HeapNodes, hHeap, "idle", 1)
        BY <1>0, <2>1, <2>3, UpInv
      <3> QED BY <1>1, <3>1, <3>2 DEF HeapsOwn
    <2> QED BY <2>2, <2>3
  <1>5. CASE Heap!SiftDown
    <2> DEFINE c == Heap!Smallest
    <2>0. c = IF 2 * hAt + 1 <= Len(hHeap) /\ hHeap[2 * hAt + 1].distance < hHeap[2 * hAt].distance
              THEN 2 * hAt + 1 ELSE 2 * hAt
      BY DEF Heap!Smallest, Heap!Size, Heap!Cheaper
    <2>1. HeapInv(HeapNodes, hHeap, "down", hAt)
      BY <1>5 DEF HeapsOwn, Heap!SiftDown
    <2>2. CASE 2 * hAt <= Len(hHeap) /\ hHeap[c].distance < hHeap[hAt].distance
      <3>1. /\ hHeap' = SwapOf(hHeap, hAt, c) /\ hAt' = c
            /\ hSift' = "down" /\ hRoot' = hRoot
        BY <1>5, <2>2 DEF Heap!SiftDown, Heap!Cheaper, Heap!Size, Heap!MoveTo, Heap!Swap, SwapOf
      <3> HIDE DEF c
      <3>2. /\ HeapInv(HeapNodes, SwapOf(hHeap, hAt, c), "down", c)
            /\ Bagged(SwapOf(hHeap, hAt, c)) = Bagged(hHeap)
        BY <1>0, <2>0, <2>1, <2>2, DownInv
      <3> QED BY <1>1, <3>1, <3>2 DEF HeapsOwn
    <2>3. CASE ~(2 * hAt <= Len(hHeap) /\ hHeap[c].distance < hHeap[hAt].distance)
      <3>1. hHeap' = hHeap /\ hAt' = 1 /\ hSift' = "idle" /\ hRoot' = hRoot
        BY <1>5, <2>3 DEF Heap!SiftDown, Heap!Cheaper, Heap!Size, Heap!Settle
      <3> HIDE DEF c
      <3>2. HeapInv(HeapNodes, hHeap, "idle", 1)
        BY <1>0, <2>0, <2>1, <2>3, DownInv
      <3> QED BY <1>1, <3>1, <3>2 DEF HeapsOwn
    <2> QED BY <2>2, <2>3
  <1> QED BY <1>2, <1>3, <1>4, <1>5 DEF Heap!HeapNext

(* In the suite, Dijkstra's program and the heap each run as they would
   alone.                                                                   *)
LEMMA SuiteRuns ==
  /\ SuiteInit => Init /\ Heap!HeapInit
  /\ [SuiteNext]_suite => [Next]_vars /\ [Heap!HeapNext]_heapAlone
  <1>1. SuiteInit => Init /\ Heap!HeapInit
    BY DEF SuiteInit
  <1>2. SuiteNext => [Next]_vars /\ [Heap!HeapNext]_heapAlone
    BY DEF SuiteNext
  <1>3. UNCHANGED suite => UNCHANGED vars /\ UNCHANGED heapAlone
    BY DEF suite
  <1> QED BY <1>1, <1>2, <1>3

(* However calls of push and pop are mixed, and for any nodes and capacity,
   the heap of Dijkstra-MinHeap.c implements the priority queue.            *)
THEOREM HeapIsPriorityQueue == SuiteSpec => HeapIsQueue
  <1>1. SuiteInit => HeapsOwn /\ Heap!Queue!Init
    BY SuiteRuns, HeapInits
  <1>2. HeapsOwn /\ [Heap!HeapNext]_heapAlone =>
          HeapsOwn' /\ [Heap!Queue!Next]_<<Heap!Contents, hRoot>>
    <2>1. HeapsOwn /\ UNCHANGED heapAlone =>
            HeapsOwn' /\ UNCHANGED <<Heap!Contents, hRoot>>
      BY DEF heapAlone, HeapsOwn, Heap!Contents, Heap!Held, Heap!Size
    <2> QED BY <2>1, HeapSteps
  <1>3. [SuiteNext]_suite => [Heap!HeapNext]_heapAlone
    BY SuiteRuns
  <1>4. SuiteSpec => Heap!Queue!Init /\ [][Heap!Queue!Next]_<<Heap!Contents, hRoot>>
    BY <1>1, <1>2, <1>3, PTL DEF SuiteSpec
  <1> QED BY <1>4, PTL DEF HeapIsQueue, Heap!ImplementsQueue, Heap!Queue!Spec

(* However routes are added and whatever entries the heap has kept: the heap
   is one, cities leave it by their distance, and it overflows only in a graph
   with more routes than it has entries.                                    *)
THEOREM RoutesAreInOrder == SuiteSpec => []RoutesInOrder
  <1>1. Init => IndInv /\ RouteInv
    BY InitInd, RouteInit
  <1>2. IndInv /\ RouteInv /\ [Next]_vars => (IndInv /\ RouteInv)'
    BY NextInd, RouteNextInd
  <1>3. IndInv /\ RouteInv => RoutesInOrder
    BY RouteInvOrders DEF RoutesInOrder
  <1> QED BY <1>1, <1>2, <1>3, SuiteRuns, PTL DEF SuiteSpec
=============================================================================
